---- MODULE Spec2Model ----
(***************************************************************************)
(* Model of the lottery ledger of watchtox: controllers/lotteryController  *)
(* (buyTicket, draw, writeDBAtomic, loadDB) over utils/readWriteJSON       *)
(* (readJSON, writeJSON).  One Node.js process serves concurrent requests; *)
(* each handler runs from one await to the next as one step.               *)
(***************************************************************************)
EXTENDS Integers, Sequences, FiniteSets, TLC

(* ------------------------------ bounds --------------------------------- *)
\* number of HTTP requests a behaviour contains
MaxReqs == 2
\* number of file operations that may fail in a behaviour
MaxFaults == 1

(* -------------------------- program constants -------------------------- *)
\* process.env.MAX_TICKETS_PER_DRAW / MAX_TICKETS_PER_USER overrides
MAX_TICKETS_PER_DRAW == 3
MAX_TICKETS_PER_USER == 2

\* ticket.drawId === null
Null == 0

\* while (numbers.size < 6)
TICKET_SIZE == 6
\* Math.floor(Math.random() * 49)
NUMBER_RANGE == 49

VARIABLES
  file,     \* data/lottery.json: [kind, doc]
  file0,    \* history: the file when the server started
  reqs,     \* the requests, each at one of its awaits
  writes,   \* the chain of promises hanging off pendingWrite, oldest first
  commits,  \* history: indices of writes whose writeFile completed, in order
  nextId,   \* uuidv4(): next fresh id
  clock,    \* new Date(): the millisecond at which the next record is made
  faults,   \* file operations failed so far
  call,     \* a helper function under evaluation: [fn, args, ret, done]
  userStore \* data/users.json and the chain of userController: [file, writes]

vars ==
  <<file, file0, reqs, writes, commits, nextId, clock, faults, call, userStore>>

Reqs == 1..MaxReqs

(* ----------------------------- identities ------------------------------ *)
\* req.user as attached by authenticate: {id, role?, email?}; role "" and
\* email <<>> stand for an absent field, present = FALSE for no req.user.
AdminSuffix == <<"@", "admin.com">>

Anon  == [present |-> FALSE, id |-> "",      role |-> "",      email |-> <<>>]
Alice == [present |-> TRUE,  id |-> "alice", role |-> "user",  email |-> <<"alice", "@", "mail.com">>]
Root  == [present |-> TRUE,  id |-> "root",  role |-> "admin", email |-> <<"root", "@", "mail.com">>]

\* a role that is not admin next to an address of the admin domain
Mallory ==
  [present |-> TRUE, id |-> "mallory", role |-> "user",
   email |-> <<"mallory", "@", "admin.com">>]

\* the callers of the ledger's endpoints
Callers == {Anon, Alice, Root}

\* the callers of POST /draw
DrawCallers == Callers \cup {Mallory}

EndsWith(s, suffix) ==
  /\ Len(s) >= Len(suffix)
  /\ SubSeq(s, Len(s) - Len(suffix) + 1, Len(s)) = suffix

\* every caller is taken for an admin
isAdminAnyone(user) == TRUE

isAdmin(user) ==
  IF ~user.present THEN FALSE
  ELSE IF user.role # "" THEN user.role = "admin"
  ELSE EndsWith(user.email, AdminSuffix)

\* adminOnly, the guard of POST /draw in front of the handler
adminOnly(user) ==
  \/ user.present /\ user.role = "admin"
  \/ user.present /\ EndsWith(user.email, AdminSuffix)

(* ------------------------------ documents ------------------------------ *)
EmptyDoc == [draws |-> <<>>, tickets |-> <<>>]

\* the content of the file: a parseable document, no file, or bytes that
\* JSON.parse rejects (a truncated file)
DocFile(d)    == [kind |-> "doc", doc |-> d]
MissingFile   == [kind |-> "missing", doc |-> EmptyDoc]
MalformedFile == [kind |-> "malformed", doc |-> EmptyDoc]

\* readJSON: null (here "null") for ENOENT and SyntaxError
readJSON(content) ==
  IF content.kind = "doc" THEN [null |-> FALSE, data |-> content.doc]
  ELSE [null |-> TRUE, data |-> EmptyDoc]

\* the empty ledger is one object shared by all calls, and still holds
\* the ticket that an earlier buyTicket pushed onto it
loadDBSharedEmpty(content, ioError) ==
  IF ioError \/ readJSON(content).null
  THEN [draws |-> <<>>,
        tickets |-> <<[id |-> 1, userId |-> "alice",
                       numbers |-> <<3, 12, 19, 27, 41, 49>>,
                       drawId |-> Null, purchasedAt |-> 0]>>]
  ELSE readJSON(content).data

\* loadDB: data ?? empty; every error of readJSON is caught and gives empty
loadDB(content, ioError) ==
  IF ioError THEN EmptyDoc
  ELSE IF readJSON(content).null THEN EmptyDoc
  ELSE readJSON(content).data

Range(s) == {s[i] : i \in 1..Len(s)}

(* --------------------------- number generation ------------------------- *)
\* The values Math.floor(Math.random() * 49) takes in one call of
\* generateTicketNumbers, in order, up to the one that completes the Set:
\* each is in 0..48, and a value may repeat.
RandomValues == 0..(NUMBER_RANGE - 1)

SampleStreams ==
  { s \in { <<2, 11, 11, 18, 26, 40, 2, 48>>, <<43, 2, 7, 18, 0, 32>> } :
      \A i \in 1..Len(s) : s[i] \in RandomValues }

\* Array.prototype.sort((a, b) => a - b) of the elements of a Set
\* the element at place i is the one with i - 1 smaller elements
SortAsc(S) ==
  [i \in 1..Cardinality(S) |->
     CHOOSE x \in S : Cardinality({y \in S : y < x}) = i - 1]

\* while (numbers.size < 6) numbers.add(Math.floor(Math.random() * 49) + 1)
RECURSIVE FillNumbers(_, _, _)
FillNumbers(numbers, stream, i) ==
  IF Cardinality(numbers) < TICKET_SIZE
  THEN FillNumbers(numbers \cup {stream[i] + 1}, stream, i + 1)
  ELSE numbers

\* the values are pushed onto an array: a repeated value is kept
generateWithoutSet(stream) == [i \in 1..TICKET_SIZE |-> stream[i] + 1]

\* generateTicketNumbers, given the values Math.random yields
generateTicketNumbers(stream) == SortAsc(FillNumbers({}, stream, 1))

(* ------------------------------- matching ------------------------------ *)
\* the numbers are compared place by place
countMatchesInPlace(ticketNumbers, drawNumbers) ==
  Cardinality({i \in 1..Len(ticketNumbers) : ticketNumbers[i] = drawNumbers[i]})

\* drawSet = new Set(drawNumbers);
\* ticketNumbers.filter(n => drawSet.has(n)).length
countMatches(ticketNumbers, drawNumbers) ==
  LET drawSet == {drawNumbers[i] : i \in 1..Len(drawNumbers)}
  IN Len(SelectSeq(ticketNumbers, LAMBDA n : n \in drawSet))

\* the cases of 5 and 4 are exchanged
prizeSwapped(matches) ==
  CASE matches = 6 -> "Jackpot!"
    [] matches = 5 -> "Small prize"
    [] matches = 4 -> "Big prize"
    [] OTHER -> "No prize"

\* switch (matches)
prizeFromMatches(matches) ==
  CASE matches = 6 -> "Jackpot!"
    [] matches = 5 -> "Big prize"
    [] matches = 4 -> "Small prize"
    [] OTHER -> "No prize"

\* the first draw of the ledger is taken, whatever its id
findDrawFirst(db, drawId) ==
  IF db.draws = <<>> THEN <<>> ELSE <<Head(db.draws)>>

\* db.draws.find(d => d.id === drawId): <<>> for undefined
findDraw(db, drawId) ==
  LET found == SelectSeq(db.draws, LAMBDA d : d.id = drawId)
  IN IF found = <<>> THEN <<>> ELSE <<Head(found)>>

\* the tickets of the draw, whoever owns them
anyTicketsOfDraw(db, userId, drawId) ==
  SelectSeq(db.tickets, LAMBDA t : t.drawId = drawId)

\* db.tickets.filter(t => t.userId === userId && t.drawId === drawId)
myTicketsOfDraw(db, userId, drawId) ==
  SelectSeq(db.tickets, LAMBDA t : t.userId = userId /\ t.drawId = drawId)

\* myTickets.map(t => ({ticketId, numbers, matches, prize}))
detailedResults(tickets, draw) ==
  [i \in 1..Len(tickets) |->
     LET matches == countMatches(tickets[i].numbers, draw.numbers)
     IN [ticketId |-> tickets[i].id, numbers |-> tickets[i].numbers,
         matches |-> matches, prize |-> prizeFromMatches(matches)]]

(* ------------------------------- listings ------------------------------ *)
\* (a, b) => new Date(b.date) - new Date(a.date)
compareDraws(a, b) == b.date - a.date

\* Array.prototype.sort is stable: an element goes behind every element
\* that the comparator does not put after it
RECURSIVE InsertSorted(_, _)
InsertSorted(sorted, x) ==
  IF sorted = <<>> THEN <<x>>
  ELSE IF compareDraws(Head(sorted), x) <= 0
       THEN <<Head(sorted)>> \o InsertSorted(Tail(sorted), x)
       ELSE <<x>> \o sorted

RECURSIVE SortDraws(_)
SortDraws(draws) ==
  IF draws = <<>> THEN <<>>
  ELSE InsertSorted(SortDraws(SubSeq(draws, 1, Len(draws) - 1)),
                    draws[Len(draws)])

\* the draws are returned last inserted first
sortedDrawsReversed(db) == [i \in 1..Len(db.draws) |-> db.draws[Len(db.draws) + 1 - i]]

\* db.draws.slice().sort(...)
sortedDraws(db) == SortDraws(db.draws)

\* the characters of a query value that are decimal digits
Digits == {"0", "1", "2", "3", "4", "5", "6", "7", "8", "9"}

DigitValue(c) ==
  CASE c = "0" -> 0 [] c = "1" -> 1 [] c = "2" -> 2 [] c = "3" -> 3
    [] c = "4" -> 4 [] c = "5" -> 5 [] c = "6" -> 6 [] c = "7" -> 7
    [] c = "8" -> 8 [] c = "9" -> 9

\* the value of the longest prefix of digits, given the value read so far
RECURSIVE ReadDigits(_, _)
ReadDigits(chars, acc) ==
  IF chars = <<>> \/ Head(chars) \notin Digits THEN acc
  ELSE ReadDigits(Tail(chars), acc * 10 + DigitValue(Head(chars)))

RECURSIVE TrimStart(_)
TrimStart(chars) ==
  IF chars # <<>> /\ Head(chars) = " " THEN TrimStart(Tail(chars)) ELSE chars

\* parseInt(string, 10): leading blanks, a sign, then digits; NaN when no
\* digit follows
parseInt(chars) ==
  LET t        == TrimStart(chars)
      negative == t # <<>> /\ Head(t) = "-"
      signed   == t # <<>> /\ Head(t) \in {"-", "+"}
      body     == IF signed THEN Tail(t) ELSE t
  IN IF body = <<>> \/ Head(body) \notin Digits
     THEN [nan |-> TRUE, val |-> 0]
     ELSE [nan |-> FALSE,
           val |-> IF negative THEN 0 - ReadDigits(body, 0)
                   ELSE ReadDigits(body, 0)]

DEFAULT_PAGE == 1
DEFAULT_LIMIT == 20

Max(a, b) == IF a >= b THEN a ELSE b
Min(a, b) == IF a <= b THEN a ELSE b

\* Math.max(1, parseInt(value, 10) || fallback): NaN and 0 are falsy
atLeastOne(chars, fallback) ==
  LET n == parseInt(chars)
  IN Max(1, IF n.nan \/ n.val = 0 THEN fallback ELSE n.val)

\* db.tickets.filter(t => t.userId === userId)
myAll(db, userId) == SelectSeq(db.tickets, LAMBDA t : t.userId = userId)

\* the page starts at page * limit
pagedFromNextPage(all, page, limit) ==
  SubSeq(all, page * limit + 1, Min(page * limit + limit, Len(all)))

\* myAll.slice(start, start + limit) with start = (page - 1) * limit
paged(all, page, limit) ==
  LET start == (page - 1) * limit
  IN SubSeq(all, start + 1, Min(start + limit, Len(all)))

(* ------------------------------ the ledger ----------------------------- *)
\* every ticket counts toward the caps, assigned to a draw or not
ticketsOfAnyDraw(db) == db.tickets

\* db.tickets.filter(t => t.drawId === null)
ticketsWithoutDraw(db) == SelectSeq(db.tickets, LAMBDA t : t.drawId = Null)

\* ticketsWithoutDraw.filter(t => t.userId === userId)
myPending(db, userId) ==
  SelectSeq(ticketsWithoutDraw(db), LAMBDA t : t.userId = userId)

\* the guard is left out
openDrawNever(db) == FALSE

\* the guard looks at the oldest draw only
openDrawFirstOnly(db) ==
  /\ Len(db.draws) >= 1
  /\ ~ \E j \in 1..Len(db.tickets) : db.tickets[j].drawId = db.draws[1].id

\* db.draws.find(d => !db.tickets.some(t => t.drawId === d.id)) is defined
openDraw(db) ==
  \E i \in 1..Len(db.draws) :
    ~ \E j \in 1..Len(db.tickets) : db.tickets[j].drawId = db.draws[i].id

\* the check of the global cap lets one ticket too many through
globalCapOffByOne(db) == Len(ticketsWithoutDraw(db)) > MAX_TICKETS_PER_DRAW

\* ticketsWithoutDraw.length >= MAX_TICKETS_PER_DRAW
globalCapReached(db) == Len(ticketsWithoutDraw(db)) >= MAX_TICKETS_PER_DRAW

\* the check of the per-user cap lets one ticket too many through
userCapOffByOne(db, userId) ==
  Len(myPending(db, userId)) > MAX_TICKETS_PER_USER

\* myPending.length >= MAX_TICKETS_PER_USER
userCapReached(db, userId) ==
  Len(myPending(db, userId)) >= MAX_TICKETS_PER_USER

newTicket(id, userId, numbers, now) ==
  [id |-> id, userId |-> userId, numbers |-> numbers, drawId |-> Null,
   purchasedAt |-> now]

newDraw(id, numbers, now) == [id |-> id, numbers |-> numbers, date |-> now]

\* every ticket is given the new draw, the assigned ones too
assignAll(tickets, drawId) ==
  [i \in 1..Len(tickets) |-> [tickets[i] EXCEPT !.drawId = drawId]]

\* db.tickets.forEach(t => { if (t.drawId === null) t.drawId = newDraw.id })
assignPending(tickets, drawId) ==
  [i \in 1..Len(tickets) |->
     IF tickets[i].drawId = Null THEN [tickets[i] EXCEPT !.drawId = drawId]
     ELSE tickets[i]]

\* the document buyTicket hands to writeDBAtomic
buyPayload(db, ticket) == [db EXCEPT !.tickets = Append(db.tickets, ticket)]

\* the tickets are given the id of a draw that is not stored
drawPayloadWithoutDraw(db, d) ==
  [draws |-> db.draws, tickets |-> assignPending(db.tickets, d.id)]

\* the draw is written first and the tickets are left for a later write
drawPayloadDrawFirst(db, d) ==
  [draws |-> Append(db.draws, d), tickets |-> db.tickets]

\* the document draw hands to writeDBAtomic
drawPayload(db, d) ==
  [draws |-> Append(db.draws, d), tickets |-> assignPending(db.tickets, d.id)]

(* --------------------------- the write chain --------------------------- *)
\* A write is "queued" (its .then callback has not run), "mkdir" (fs.mkdir
\* in flight), "writing" (fs.writeFile in flight), "done" (promise
\* fulfilled), "failed" (writeJSON threw) or "rejected" (the promise was
\* rejected by its predecessor's rejection; the callback never ran).
Executing == {"mkdir", "writing"}
Rejected  == {"failed", "rejected"}
Settled   == {"done", "failed", "rejected"}

\* the write is issued without waiting for the promise it is chained to
PromiseThenNoWait(prevSt) == "mkdir"

\* a callback chained to a rejected promise is never run and its promise
\* never settles
PromiseThenHeldByFailure(prevSt) ==
  IF prevSt = "done" THEN "mkdir" ELSE "queued"

\* pendingWrite.then(() => writeJSON(LOTTERY_DB, payload)): what becomes of
\* a queued callback given the state of the promise it was chained to
PromiseThen(prevSt) ==
  IF prevSt = "done" THEN "mkdir"
  ELSE IF prevSt \in Rejected THEN "rejected"
  ELSE "queued"

\* let pendingWrite = Promise.resolve()
ResolvedPromise == [st |-> "done", err |-> 0]

\* the microtasks that run once a promise settles: every queued write whose
\* predecessor is settled starts or is rejected with the predecessor's error
RECURSIVE RunMicrotasks(_, _)
RunMicrotasks(ws, i) ==
  IF ws[i].st # "queued" THEN ws[i]
  ELSE LET prev == IF i = 1 THEN ResolvedPromise ELSE RunMicrotasks(ws, i - 1)
           st   == PromiseThen(prev.st)
       IN [ws[i] EXCEPT !.st = st,
                        !.err = IF st = "rejected" THEN prev.err ELSE 0]

Drain(ws) == [i \in 1..Len(ws) |-> RunMicrotasks(ws, i)]

\* writeDBAtomic(payload) up to its await
writeDBAtomic(ws, owner, payload) ==
  Drain(Append(ws, [owner |-> owner, payload |-> payload, st |-> "queued",
                    err |-> 0]))

(* ------------------------------- requests ------------------------------ *)
\* pc: "idle" (not yet arrived), "loaded" (readFile of loadDB has produced
\* its result, the continuation of `await loadDB()` has not run yet),
\* "awaiting" (suspended in `await pendingWrite`), "done" (answered)
\* readErr: the readFile of this request's loadDB failed;
\* role: req.body.role of a user route ("" when the body has none);
\* target: req.params.id of a user route; users: what loadUsers returned;
\* arg: req.params.drawId; query: req.query.page and req.query.limit;
\* body: the draw and myResults of a results answer, the draws of a
\* listDraws answer, the page, limit, totalTickets and tickets of a
\* myTickets answer
NoBody ==
  [draw |-> [id |-> Null, numbers |-> <<>>, date |-> 0], myResults |-> <<>>,
   draws |-> <<>>, page |-> 0, limit |-> 0, totalTickets |-> 0,
   tickets |-> <<>>]

\* String(undefined), what parseInt makes of a query parameter that is missing
Undefined == <<"undefined">>

NoQuery == [page |-> Undefined, limit |-> Undefined]

IdleReq ==
  [pc |-> "idle", op |-> "none", user |-> Anon, loaded |-> EmptyDoc,
   made |-> 0, job |-> 0, status |-> 0, err |-> 0, arg |-> Null,
   query |-> NoQuery, body |-> NoBody, readErr |-> FALSE, target |-> "",
   users |-> <<>>, role |-> ""]

\* what a readFile can return: the file, or, while a writeFile is in flight
\* (it truncates, then writes), the truncated file or the new content
Observable ==
  {file} \cup
  UNION { {MalformedFile, DocFile(writes[i].payload)} :
          i \in {j \in 1..Len(writes) : writes[j].st = "writing"} }

\* the handler awaits the promise that pendingWrite held before its own
\* write was chained to it
ResumeOnEarlierWrite(rq, ws) ==
  LET prev == IF rq.job <= 1 THEN ResolvedPromise ELSE ws[rq.job - 1]
  IN IF rq.pc # "awaiting" THEN rq
     ELSE IF prev.st = "done"
          THEN [rq EXCEPT !.pc = "done", !.status = 201]
     ELSE IF prev.st \in Rejected
          THEN [rq EXCEPT !.pc = "done", !.status = 500, !.err = prev.err]
     ELSE rq

\* asyncHandler around `await pendingWrite`: a request whose write is
\* fulfilled answers 201; one whose promise is rejected throws, and
\* next(err) makes the central handler answer 500 with that error
Resume(rq, ws) ==
  IF rq.pc # "awaiting" THEN rq
  ELSE IF ws[rq.job].st = "done"
       THEN [rq EXCEPT !.pc = "done", !.status = 201]
  ELSE IF ws[rq.job].st \in Rejected
       THEN [rq EXCEPT !.pc = "done", !.status = 500, !.err = ws[rq.job].err]
  ELSE rq

ResumeAll(rs, ws) == [r \in Reqs |-> Resume(rs[r], ws)]

\* The ledgers the server may find when it starts: no file yet, one pending
\* ticket, one ticket assigned to a draw, one user at the per-user cap.
\* Each is what earlier buyTicket and draw requests leave behind.
SeedStream == <<2, 11, 18, 26, 40, 48>>

SeedNumbers == generateTicketNumbers(SeedStream)

SeedTicket(drawId) ==
  [newTicket(1, "alice", SeedNumbers, 0) EXCEPT !.drawId = drawId]

SeedDraw == newDraw(2, SeedNumbers, 0)

SeedTicket2 == newTicket(2, "alice", SeedNumbers, 0)

InitFiles ==
  { MissingFile,
    DocFile([draws |-> <<>>, tickets |-> <<SeedTicket(Null)>>]),
    DocFile([draws |-> <<SeedDraw>>, tickets |-> <<SeedTicket(SeedDraw.id)>>]),
    DocFile([draws |-> <<>>, tickets |-> <<SeedTicket(Null), SeedTicket2>>]) }

\* the user store before any of its routes is used
NoUsers == [file |-> [kind |-> "missing", users |-> <<>>], writes |-> <<>>]

\* no helper is evaluated on its own
NoCall == [fn |-> "none", args |-> <<>>, ret |-> <<>>, done |-> FALSE]

Init ==
  /\ file \in InitFiles
  /\ file0 = file
  /\ reqs = [r \in Reqs |-> IdleReq]
  /\ writes = <<>>
  /\ commits = <<>>
  /\ nextId = 3
  /\ clock = 1
  /\ faults = 0
  /\ call = NoCall
  /\ userStore = NoUsers

\* requests arrive in the order of their index
Arrives(r) ==
  /\ reqs[r].pc = "idle"
  /\ \A q \in Reqs : q < r => reqs[q].pc # "idle"

\* buyTicket receives a request; without req.user.id it answers 401,
\* otherwise loadDB reads the file
BuyTicketRead(r, user, content) ==
  /\ Arrives(r)
  /\ reqs' = IF user.id = ""
             THEN [reqs EXCEPT ![r].pc = "done", ![r].op = "buy",
                               ![r].user = user, ![r].status = 401]
             ELSE [reqs EXCEPT ![r].pc = "loaded", ![r].op = "buy",
                               ![r].user = user,
                               ![r].loaded = loadDB(content, FALSE)]
  /\ UNCHANGED <<file, file0, writes, commits, nextId, clock, faults, call, userStore>>

\* POST /draw receives a request; a caller that adminOnly or the isAdmin
\* check of draw turns away is answered 403, otherwise loadDB reads the file
DrawRead(r, user, content) ==
  /\ Arrives(r)
  /\ reqs' = IF ~adminOnly(user) \/ ~isAdmin(user)
             THEN [reqs EXCEPT ![r].pc = "done", ![r].op = "draw",
                               ![r].user = user, ![r].status = 403]
             ELSE [reqs EXCEPT ![r].pc = "loaded", ![r].op = "draw",
                               ![r].user = user,
                               ![r].loaded = loadDB(content, FALSE)]
  /\ UNCHANGED <<file, file0, writes, commits, nextId, clock, faults, call, userStore>>

\* the readFile of loadDB fails with an error other than ENOENT (EACCES,
\* EIO): readJSON rethrows, loadDB catches it and returns the empty ledger
ReadFails(r, op, user) ==
  /\ Arrives(r)
  /\ IF op = "buy" THEN user.id # "" ELSE isAdmin(user)
  /\ faults < MaxFaults
  /\ faults' = faults + 1
  /\ reqs' = [reqs EXCEPT ![r].pc = "loaded", ![r].op = op, ![r].user = user,
                          ![r].loaded = loadDB(file, TRUE),
                          ![r].readErr = TRUE]
  /\ UNCHANGED <<file, file0, writes, commits, nextId, clock, call, userStore>>

\* res.status(code).json(...) on a path that enqueued nothing
Reply(r, code) == [reqs EXCEPT ![r].pc = "done", ![r].status = code]

\* the handler enqueues its document and suspends in `await pendingWrite`;
\* when the chain is already rejected the await throws at once
Enqueue(r, payload, id) ==
  /\ writes' = writeDBAtomic(writes, r, payload)
  /\ reqs' = ResumeAll([reqs EXCEPT ![r].pc = "awaiting", ![r].made = id,
                                    ![r].job = Len(writes) + 1], writes')
  /\ nextId' = nextId + 1
  /\ clock' = clock + 1

\* buyTicket from the return of loadDB to `await pendingWrite`
BuyTicket(r, S) ==
  /\ reqs[r].pc = "loaded"
  /\ reqs[r].op = "buy"
  /\ \E numbers \in {generateTicketNumbers(S)} :
       LET db     == reqs[r].loaded
           userId == reqs[r].user.id
           ticket == newTicket(nextId, userId, numbers, clock)
       IN IF globalCapReached(db) \/ userCapReached(db, userId)
          THEN /\ reqs' = Reply(r, 429)
               /\ UNCHANGED <<writes, nextId, clock>>
          ELSE Enqueue(r, buyPayload(db, ticket), ticket.id)
  /\ UNCHANGED <<file, file0, commits, faults, call, userStore>>

\* draw from the return of loadDB to `await pendingWrite`
Draw(r, S) ==
  /\ reqs[r].pc = "loaded"
  /\ reqs[r].op = "draw"
  /\ \E numbers \in {generateTicketNumbers(S)} :
       LET db == reqs[r].loaded
           d  == newDraw(nextId, numbers, clock)
       IN IF openDraw(db)
          THEN /\ reqs' = Reply(r, 400)
               /\ UNCHANGED <<writes, nextId, clock>>
          ELSE Enqueue(r, drawPayload(db, d), d.id)
  /\ UNCHANGED <<file, file0, commits, faults, call, userStore>>

\* fs.mkdir of writeJSON completes; writeFile is issued
MkdirDone(i) ==
  /\ i \in 1..Len(writes)
  /\ writes[i].st = "mkdir"
  /\ writes' = [writes EXCEPT ![i].st = "writing"]
  /\ UNCHANGED <<file, file0, reqs, commits, nextId, clock, faults, call, userStore>>

\* fs.mkdir fails: writeJSON rethrows, the promise of this write is rejected
MkdirFails(i) ==
  /\ i \in 1..Len(writes)
  /\ writes[i].st = "mkdir"
  /\ faults < MaxFaults
  /\ faults' = faults + 1
  /\ writes' = Drain([writes EXCEPT ![i].st = "failed", ![i].err = i])
  /\ reqs' = ResumeAll(reqs, writes')
  /\ UNCHANGED <<file, file0, commits, nextId, clock, call, userStore>>

\* fs.writeFile completes: the file holds JSON.stringify(payload)
WriteFileDone(i) ==
  /\ i \in 1..Len(writes)
  /\ writes[i].st = "writing"
  /\ file' = DocFile(writes[i].payload)
  /\ commits' = Append(commits, i)
  /\ writes' = Drain([writes EXCEPT ![i].st = "done"])
  /\ reqs' = ResumeAll(reqs, writes')
  /\ UNCHANGED <<file0, nextId, clock, faults, call, userStore>>

\* fs.writeFile fails, before or after it truncated the file
WriteFileFails(i, left) ==
  /\ i \in 1..Len(writes)
  /\ writes[i].st = "writing"
  /\ faults < MaxFaults
  /\ faults' = faults + 1
  /\ file' = left
  /\ writes' = Drain([writes EXCEPT ![i].st = "failed", ![i].err = i])
  /\ reqs' = ResumeAll(reqs, writes')
  /\ UNCHANGED <<file0, commits, nextId, clock, call, userStore>>


Next ==
  \/ \E r \in Reqs, user \in Callers, content \in Observable :
       BuyTicketRead(r, user, content)
  \/ \E r \in Reqs, user \in DrawCallers, content \in Observable :
       DrawRead(r, user, content)
  \/ \E r \in Reqs, op \in {"buy", "draw"}, user \in Callers :
       ReadFails(r, op, user)
  \/ \E r \in Reqs, S \in SampleStreams : BuyTicket(r, S)
  \/ \E r \in Reqs, S \in SampleStreams : Draw(r, S)
  \/ \E i \in 1..MaxReqs : MkdirDone(i)
  \/ \E i \in 1..MaxReqs : MkdirFails(i)
  \/ \E i \in 1..MaxReqs : WriteFileDone(i)
  \/ \E i \in 1..MaxReqs, left \in {file, MalformedFile} :
       WriteFileFails(i, left)

Spec == Init /\ [][Next]_vars

(* ------------------------- helpers on their own ------------------------ *)
\* the identities isAdmin may be given: no req.user, or a role (absent, a
\* non-admin one, admin, admin in another case) with an address (absent,
\* outside the admin domain, inside it, the domain without "@", the domain
\* followed by more)
Roles == {"", "user", "admin", "Admin"}

Emails ==
  { <<>>, <<"u", "@", "mail.com">>, <<"u", "@", "admin.com">>,
    <<"admin.com">>, <<"u", "@", "admin.com", ".evil.org">> }

Identities ==
  {Anon} \cup {[present |-> TRUE, id |-> "u", role |-> ro, email |-> e] :
                 ro \in Roles, e \in Emails}

\* the users of data/users.json: register stores no role, an update by an
\* admin may have set one
StoredUsers ==
  {[id |-> "u", role |-> ro, email |-> e] :
     ro \in {"", "user", "admin"},
     e \in {<<"u", "@", "mail.com">>, <<"u", "@", "admin.com">>}}

\* req.user of a request that carries the session login made: the role is
\* user.role || 'user', and login stores no email in the session
sessionIdentity(user) ==
  [present |-> TRUE, id |-> user.id,
   role |-> IF user.role # "" THEN user.role ELSE "user", email |-> <<>>]

\* req.user of a request that carries the token: the payload generateToken
\* signed, which has id, email and name and no role
tokenIdentity(user) ==
  [present |-> TRUE, id |-> user.id, role |-> "", email |-> user.email]

\* number sets with 6, 5, 4, 3 and 0 numbers in common with the first
NumberSets ==
  { {3, 12, 19, 27, 41, 49}, {3, 12, 19, 27, 41, 44}, {3, 12, 19, 27, 33, 44},
    {1, 3, 8, 19, 27, 44}, {2, 4, 6, 10, 20, 30} }

Reverse(a) == [i \in 1..Len(a) |-> a[Len(a) + 1 - i]]

Rotate(a) == [i \in 1..Len(a) |-> a[(i % Len(a)) + 1]]

\* arrays of 6 distinct numbers in ascending, descending and rotated order
NumberArraysIn ==
  UNION {{SortAsc(S), Reverse(SortAsc(S)), Rotate(SortAsc(S))} : S \in NumberSets}

MatchCounts == 0..7

CallOf(fn, args) == [fn |-> fn, args |-> args, ret |-> <<>>, done |-> FALSE]

InitHelpers ==
  /\ file = MissingFile
  /\ file0 = file
  /\ reqs = [r \in Reqs |-> IdleReq]
  /\ writes = <<>>
  /\ commits = <<>>
  /\ nextId = 3
  /\ clock = 1
  /\ faults = 0
  /\ call \in {CallOf("isAdmin", <<u>>) : u \in Identities}
            \cup {CallOf("adminOnly", <<u>>) : u \in Identities}
            \cup {CallOf(path, <<u>>) :
                    path \in {"bySession", "byToken"}, u \in StoredUsers}
            \cup {CallOf("countMatches", <<t, d>>) :
                    t \in NumberArraysIn, d \in NumberArraysIn}
            \cup {CallOf("prizeFromMatches", <<m>>) : m \in MatchCounts}
  /\ userStore = NoUsers

Return(v) ==
  /\ call' = [call EXCEPT !.ret = v, !.done = TRUE]
  /\ UNCHANGED <<file, file0, reqs, writes, commits, nextId, clock, faults,
                 userStore>>

IsAdminCall ==
  /\ call.fn = "isAdmin" /\ ~call.done
  /\ Return(isAdmin(call.args[1]))

\* the route guard decides on req.user: TRUE is next(), FALSE is the 403
AdminOnlyCall ==
  /\ call.fn = "adminOnly" /\ ~call.done
  /\ Return(adminOnly(call.args[1]))

\* authenticate takes the session of a login, then isAdmin decides
IsAdminBySession ==
  /\ call.fn = "bySession" /\ ~call.done
  /\ Return(isAdmin(sessionIdentity(call.args[1])))

\* authenticate verifies the token of a login, then isAdmin decides
IsAdminByToken ==
  /\ call.fn = "byToken" /\ ~call.done
  /\ Return(isAdmin(tokenIdentity(call.args[1])))

CountMatchesCall ==
  /\ call.fn = "countMatches" /\ ~call.done
  /\ Return(countMatches(call.args[1], call.args[2]))

PrizeFromMatchesCall ==
  /\ call.fn = "prizeFromMatches" /\ ~call.done
  /\ Return(prizeFromMatches(call.args[1]))

NextHelpers ==
  \/ IsAdminCall \/ AdminOnlyCall \/ IsAdminBySession \/ IsAdminByToken
  \/ CountMatchesCall \/ PrizeFromMatchesCall

SpecHelpers == InitHelpers /\ [][NextHelpers]_vars

(* ------------------------------- results -------------------------------- *)
\* a ticket that a draw has picked up
AssignedTicket(id, userId, S, now, drawId) ==
  [newTicket(id, userId, SortAsc(S), now) EXCEPT !.drawId = drawId]

\* a ledger after two draws: the first with tickets of two users that have
\* 6, 5 and 4 numbers in common with it, the second with tickets that
\* have 3 and 0, and one ticket still pending
PlayedLedger ==
  [draws |-> << newDraw(4, SortAsc({3, 12, 19, 27, 41, 49}), 4),
                newDraw(7, SortAsc({1, 3, 8, 19, 27, 44}), 7) >>,
   tickets |->
     << AssignedTicket(1, "alice", {3, 12, 19, 27, 41, 49}, 1, 4),
        AssignedTicket(2, "alice", {3, 12, 19, 27, 41, 44}, 2, 4),
        AssignedTicket(3, "root", {3, 12, 19, 27, 33, 44}, 3, 4),
        AssignedTicket(5, "alice", {3, 12, 19, 27, 41, 49}, 5, 7),
        AssignedTicket(6, "root", {2, 4, 6, 10, 20, 30}, 6, 7),
        newTicket(8, "alice", SortAsc({1, 3, 8, 19, 27, 44}), 8) >>]

ResultFiles ==
  { MissingFile,
    DocFile([draws |-> <<SeedDraw>>, tickets |-> <<SeedTicket(SeedDraw.id)>>]),
    DocFile(PlayedLedger) }

\* req.params.drawId: the ids of the draws of the ledgers, and one of none
DrawIds == {SeedDraw.id, 4, 7, 9}

InitResults ==
  /\ file \in ResultFiles
  /\ file0 = file
  /\ reqs = [r \in Reqs |-> IdleReq]
  /\ writes = <<>>
  /\ commits = <<>>
  /\ nextId = 9
  /\ clock = 9
  /\ faults = 0
  /\ call = NoCall
  /\ userStore = NoUsers

\* results receives a request; without req.user.id it answers 401,
\* otherwise loadDB reads the file
ResultsRead(r, user, drawId, content) ==
  /\ Arrives(r)
  /\ reqs' = IF user.id = ""
             THEN [reqs EXCEPT ![r].pc = "done", ![r].op = "results",
                               ![r].user = user, ![r].arg = drawId,
                               ![r].status = 401]
             ELSE [reqs EXCEPT ![r].pc = "loaded", ![r].op = "results",
                               ![r].user = user, ![r].arg = drawId,
                               ![r].loaded = loadDB(content, FALSE)]
  /\ UNCHANGED <<file, file0, writes, commits, nextId, clock, faults, call, userStore>>

\* the readFile of loadDB fails: results works on the empty ledger
ResultsReadFails(r, user, drawId) ==
  /\ Arrives(r)
  /\ user.id # ""
  /\ faults < MaxFaults
  /\ faults' = faults + 1
  /\ reqs' = [reqs EXCEPT ![r].pc = "loaded", ![r].op = "results",
                          ![r].user = user, ![r].arg = drawId,
                          ![r].loaded = loadDB(file, TRUE),
                          ![r].readErr = TRUE]
  /\ UNCHANGED <<file, file0, writes, commits, nextId, clock, call, userStore>>

\* results from the return of loadDB to its answer
Results(r) ==
  /\ reqs[r].pc = "loaded"
  /\ reqs[r].op = "results"
  /\ LET db    == reqs[r].loaded
         found == findDraw(db, reqs[r].arg)
     IN IF found = <<>>
        THEN reqs' = Reply(r, 404)
        ELSE LET draw      == found[1]
                 myTickets == myTicketsOfDraw(db, reqs[r].user.id, reqs[r].arg)
             IN reqs' = [reqs EXCEPT
                  ![r].pc = "done",
                  ![r].status = 200,
                  ![r].body = [draw |-> [id |-> draw.id,
                                         numbers |-> draw.numbers,
                                         date |-> draw.date],
                               myResults |-> detailedResults(myTickets, draw)]]
  /\ UNCHANGED <<file, file0, writes, commits, nextId, clock, faults, call, userStore>>

NextResults ==
  \/ \E r \in Reqs, user \in Callers, drawId \in DrawIds,
        content \in Observable : ResultsRead(r, user, drawId, content)
  \/ \E r \in Reqs, user \in Callers, drawId \in DrawIds :
       ResultsReadFails(r, user, drawId)
  \/ \E r \in Reqs : Results(r)

SpecResults == InitResults /\ [][NextResults]_vars

(* ------------------------------ the lists ------------------------------- *)
\* a ledger whose last two draws were made in the same millisecond: the
\* second of them found every ticket assigned and is referenced by none
TiedLedger ==
  [PlayedLedger EXCEPT
     !.draws = << newDraw(4, SortAsc({3, 12, 19, 27, 41, 49}), 4),
                  newDraw(7, SortAsc({1, 3, 8, 19, 27, 44}), 7),
                  newDraw(9, SortAsc({2, 4, 6, 10, 20, 30}), 7) >>,
     !.tickets = SubSeq(PlayedLedger.tickets, 1, 5)]

ListFiles ==
  { MissingFile, MalformedFile, DocFile(PlayedLedger), DocFile(TiedLedger) }

\* req.query.page and req.query.limit as they arrive: missing, or the
\* characters of the value
PageQueries ==
  { Undefined, <<"0">>, <<"1">>, <<"2">>, <<"3">>, <<"-", "1">>,
    <<"a", "b", "c">>, <<"2", "x">>, <<>> }

LimitQueries ==
  { Undefined, <<"0">>, <<"1">>, <<"2">>, <<"3">>, <<"-", "2">>,
    <<"a", "b", "c">>, <<" ", "2">> }

\* a list request reads nothing that another list request changes: one
\* request at a time
Readers == {1}

InitLists ==
  /\ file \in ListFiles
  /\ file0 = file
  /\ reqs = [r \in Reqs |-> IdleReq]
  /\ writes = <<>>
  /\ commits = <<>>
  /\ nextId = 10
  /\ clock = 10
  /\ faults = 0
  /\ call = NoCall
  /\ userStore = NoUsers

\* myTickets receives a request; without req.user.id it answers 401,
\* otherwise loadDB reads the file
MyTicketsRead(r, user, page, limit, content) ==
  /\ Arrives(r)
  /\ reqs' = IF user.id = ""
             THEN [reqs EXCEPT ![r].pc = "done", ![r].op = "myTickets",
                               ![r].user = user,
                               ![r].query = [page |-> page, limit |-> limit],
                               ![r].status = 401]
             ELSE [reqs EXCEPT ![r].pc = "loaded", ![r].op = "myTickets",
                               ![r].user = user,
                               ![r].query = [page |-> page, limit |-> limit],
                               ![r].loaded = loadDB(content, FALSE)]
  /\ UNCHANGED <<file, file0, writes, commits, nextId, clock, faults, call, userStore>>

\* listDraws receives a request (no authentication); loadDB reads the file
ListDrawsRead(r, content) ==
  /\ Arrives(r)
  /\ reqs' = [reqs EXCEPT ![r].pc = "loaded", ![r].op = "listDraws",
                          ![r].loaded = loadDB(content, FALSE)]
  /\ UNCHANGED <<file, file0, writes, commits, nextId, clock, faults, call, userStore>>

\* the readFile of loadDB fails: the list is made of the empty ledger
ListReadFails(r, op, user) ==
  /\ Arrives(r)
  /\ op = "myTickets" => user.id # ""
  /\ op = "listDraws" => user = Anon
  /\ faults < MaxFaults
  /\ faults' = faults + 1
  /\ reqs' = [reqs EXCEPT ![r].pc = "loaded", ![r].op = op, ![r].user = user,
                          ![r].loaded = loadDB(file, TRUE),
                          ![r].readErr = TRUE]
  /\ UNCHANGED <<file, file0, writes, commits, nextId, clock, call, userStore>>

\* myTickets also saves the ledger it loaded
MyTicketsSaving(r) ==
  /\ reqs[r].pc = "loaded"
  /\ reqs[r].op = "myTickets"
  /\ writes' = writeDBAtomic(writes, r, reqs[r].loaded)
  /\ reqs' = [reqs EXCEPT ![r].pc = "done", ![r].status = 200]
  /\ UNCHANGED <<file, file0, commits, nextId, clock, faults, call, userStore>>

\* myTickets from the return of loadDB to its answer
MyTickets(r) ==
  /\ reqs[r].pc = "loaded"
  /\ reqs[r].op = "myTickets"
  /\ LET all   == myAll(reqs[r].loaded, reqs[r].user.id)
         page  == atLeastOne(reqs[r].query.page, DEFAULT_PAGE)
         limit == atLeastOne(reqs[r].query.limit, DEFAULT_LIMIT)
     IN reqs' = [reqs EXCEPT
          ![r].pc = "done",
          ![r].status = 200,
          ![r].body = [NoBody EXCEPT !.page = page, !.limit = limit,
                                     !.totalTickets = Len(all),
                                     !.tickets = paged(all, page, limit)]]
  /\ UNCHANGED <<file, file0, writes, commits, nextId, clock, faults, call, userStore>>

\* listDraws from the return of loadDB to its answer
ListDraws(r) ==
  /\ reqs[r].pc = "loaded"
  /\ reqs[r].op = "listDraws"
  /\ reqs' = [reqs EXCEPT
       ![r].pc = "done",
       ![r].status = 200,
       ![r].body = [NoBody EXCEPT !.draws = sortedDraws(reqs[r].loaded)]]
  /\ UNCHANGED <<file, file0, writes, commits, nextId, clock, faults, call, userStore>>

NextLists ==
  \/ \E r \in Readers, user \in Callers, page \in PageQueries,
        limit \in LimitQueries, content \in Observable :
       MyTicketsRead(r, user, page, limit, content)
  \/ \E r \in Readers, content \in Observable : ListDrawsRead(r, content)
  \/ \E r \in Readers, op \in {"myTickets", "listDraws"}, user \in Callers :
       ListReadFails(r, op, user)
  \/ \E r \in Readers : MyTickets(r)
  \/ \E r \in Readers : ListDraws(r)

SpecLists == InitLists /\ [][NextLists]_vars

(* --------------------------- all routes together ------------------------ *)
\* The routes of the ledger next to each other: buyTicket and draw with
\* the write chain, and myTickets, listDraws and results reading the file
\* while writes are queued or running.
ServerFiles ==
  { MissingFile, MalformedFile,
    DocFile([draws |-> <<>>, tickets |-> <<SeedTicket(Null), SeedTicket2>>]) }

\* the callers of the reading routes
ReadCallers == {Anon, Alice}

\* req.params.drawId: the id of the first draw made, and an id of none
ServerDrawIds == {3, 9}

InitServer ==
  /\ file \in ServerFiles
  /\ file0 = file
  /\ reqs = [r \in Reqs |-> IdleReq]
  /\ writes = <<>>
  /\ commits = <<>>
  /\ nextId = 3
  /\ clock = 1
  /\ faults = 0
  /\ call = NoCall
  /\ userStore = NoUsers

NextServer ==
  \/ \E r \in Reqs, user \in Callers, content \in Observable :
       BuyTicketRead(r, user, content)
  \/ \E r \in Reqs, user \in Callers, content \in Observable :
       DrawRead(r, user, content)
  \/ \E r \in Reqs, op \in {"buy", "draw"}, user \in Callers :
       ReadFails(r, op, user)
  \/ \E r \in Reqs, S \in SampleStreams : BuyTicket(r, S)
  \/ \E r \in Reqs, S \in SampleStreams : Draw(r, S)
  \/ \E i \in 1..MaxReqs : MkdirDone(i)
  \/ \E i \in 1..MaxReqs : MkdirFails(i)
  \/ \E i \in 1..MaxReqs : WriteFileDone(i)
  \/ \E i \in 1..MaxReqs, left \in {file, MalformedFile} :
       WriteFileFails(i, left)
  \/ \E r \in Readers, user \in ReadCallers, drawId \in ServerDrawIds,
        content \in Observable : ResultsRead(r, user, drawId, content)
  \/ \E r \in Reqs : Results(r)
  \/ \E r \in Readers, user \in ReadCallers, content \in Observable :
       MyTicketsRead(r, user, Undefined, Undefined, content)
  \/ \E r \in Reqs : MyTickets(r)
  \/ \E r \in Readers, content \in Observable : ListDrawsRead(r, content)
  \/ \E r \in Reqs : ListDraws(r)

SpecServer == InitServer /\ [][NextServer]_vars

(* ------------------------- requests under fairness ----------------------- *)
\* The event loop runs every continuation that is ready, and every file
\* operation that was issued ends, with success or with an error. Whether
\* and when a request arrives is up to the clients.
InitLive ==
  /\ file \in {MissingFile,
               DocFile([draws |-> <<>>, tickets |-> <<SeedTicket(Null)>>])}
  /\ file0 = file
  /\ reqs = [r \in Reqs |-> IdleReq]
  /\ writes = <<>>
  /\ commits = <<>>
  /\ nextId = 3
  /\ clock = 1
  /\ faults = 0
  /\ call = NoCall
  /\ userStore = NoUsers

\* the continuation of `await loadDB()` of a request
Continues == \E r \in Reqs, S \in {SeedStream} : BuyTicket(r, S) \/ Draw(r, S)

\* an fs.mkdir that was issued ends
MkdirEnds == \E i \in 1..MaxReqs : MkdirDone(i) \/ MkdirFails(i)

\* an fs.writeFile that was issued ends
WriteFileEnds ==
  \E i \in 1..MaxReqs :
    \/ WriteFileDone(i)
    \/ \E left \in {file, MalformedFile} : WriteFileFails(i, left)

NextLive ==
  \/ \E r \in Reqs, user \in {Anon, Alice}, content \in Observable :
       BuyTicketRead(r, user, content)
  \/ \E r \in Reqs, user \in {Alice, Root}, content \in Observable :
       DrawRead(r, user, content)
  \/ \E r \in Reqs, op \in {"buy", "draw"} : ReadFails(r, op, Root)
  \/ Continues
  \/ MkdirEnds
  \/ WriteFileEnds

SpecLive ==
  /\ InitLive
  /\ [][NextLive]_vars
  /\ WF_vars(Continues)
  /\ WF_vars(MkdirEnds)
  /\ WF_vars(WriteFileEnds)

(* ----------------------------- the user store -------------------------- *)
\* data/users.json: the users in file order, each by its id
UsersFile(us) == [kind |-> "doc", users |-> us]

\* loadUsers: the array in the file, [] for anything else and for any error
loadUsers(content, ioError) ==
  IF ioError \/ content.kind # "doc" THEN <<>> ELSE content.users

\* deleteUser: isAdmin(requester) || (requester && requester.id === id)
canDelete(requester, id) ==
  isAdmin(requester) \/ (requester.present /\ requester.id = id)

\* asyncHandler around `await pendingWrite` in userController
ResumeUser(rq, uws) ==
  IF rq.pc # "awaitingUsers" THEN rq
  ELSE IF uws[rq.job].st = "done"
       THEN [rq EXCEPT !.pc = "done", !.status = 200]
  ELSE IF uws[rq.job].st \in Rejected
       THEN [rq EXCEPT !.pc = "done", !.status = 500, !.err = uws[rq.job].err]
  ELSE rq

ResumeAllUsers(rs, uws) == [r \in Reqs |-> ResumeUser(rs[r], uws)]

\* what a readFile of users.json can return
ObservableUsers ==
  {userStore.file} \cup
  UNION { {[kind |-> "malformed", users |-> <<>>],
           UsersFile(userStore.writes[i].payload)} :
          i \in {j \in 1..Len(userStore.writes) :
                   userStore.writes[j].st = "writing"} }

\* deleteUser receives a request; a requester that may not delete the
\* user is answered 403, otherwise loadUsers reads the file
DeleteUserRead(r, requester, id, content) ==
  /\ Arrives(r)
  /\ reqs' = IF ~canDelete(requester, id)
             THEN [reqs EXCEPT ![r].pc = "done", ![r].op = "deleteUser",
                               ![r].user = requester, ![r].target = id,
                               ![r].status = 403]
             ELSE [reqs EXCEPT ![r].pc = "loaded", ![r].op = "deleteUser",
                               ![r].user = requester, ![r].target = id,
                               ![r].users = loadUsers(content, FALSE)]
  /\ UNCHANGED <<file, file0, writes, commits, nextId, clock, faults, call,
                 userStore>>

\* the write of deleteUser is chained behind the last write of the ledger
UserEnqueueBehindLedger(r, payload) ==
  LET behind == IF writes = <<>> THEN "done" ELSE writes[Len(writes)].st
      st     == PromiseThen(behind)
  IN /\ userStore' =
          [userStore EXCEPT
             !.writes = Append(@, [owner |-> r, payload |-> payload,
                                   st |-> st,
                                   err |-> IF st = "rejected" THEN 1 ELSE 0])]
     /\ reqs' = ResumeAllUsers([reqs EXCEPT ![r].pc = "awaitingUsers",
                                            ![r].job = Len(userStore.writes) + 1],
                               userStore'.writes)

\* writeDBAtomic of userController up to its await: its own pendingWrite
UserEnqueue(r, payload) ==
  /\ userStore' =
       [userStore EXCEPT !.writes = writeDBAtomic(@, r, payload)]
  /\ reqs' = ResumeAllUsers([reqs EXCEPT ![r].pc = "awaitingUsers",
                                         ![r].job = Len(userStore.writes) + 1],
                            userStore'.writes)

\* deleteUser from the return of loadUsers to `await pendingWrite`
DeleteUser(r) ==
  /\ reqs[r].pc = "loaded"
  /\ reqs[r].op = "deleteUser"
  /\ LET users    == reqs[r].users
         filtered == SelectSeq(users, LAMBDA u : u # reqs[r].target)
     IN IF Len(filtered) = Len(users)
        THEN reqs' = Reply(r, 404) /\ UNCHANGED userStore
        ELSE UserEnqueue(r, filtered)
  /\ UNCHANGED <<file, file0, writes, commits, nextId, clock, faults, call>>

\* fs.mkdir of a write of users.json completes
UserMkdirDone(i) ==
  /\ i \in 1..Len(userStore.writes)
  /\ userStore.writes[i].st = "mkdir"
  /\ userStore' = [userStore EXCEPT !.writes[i].st = "writing"]
  /\ UNCHANGED <<file, file0, reqs, writes, commits, nextId, clock, faults,
                 call>>

\* fs.mkdir of a write of users.json fails
UserMkdirFails(i) ==
  /\ i \in 1..Len(userStore.writes)
  /\ userStore.writes[i].st = "mkdir"
  /\ faults < MaxFaults
  /\ faults' = faults + 1
  /\ userStore' =
       [userStore EXCEPT
          !.writes = Drain([@ EXCEPT ![i].st = "failed", ![i].err = i])]
  /\ reqs' = ResumeAllUsers(reqs, userStore'.writes)
  /\ UNCHANGED <<file, file0, writes, commits, nextId, clock, call>>

\* fs.writeFile of users.json completes
UserWriteFileDone(i) ==
  /\ i \in 1..Len(userStore.writes)
  /\ userStore.writes[i].st = "writing"
  /\ userStore' =
       [userStore EXCEPT
          !.file = UsersFile(userStore.writes[i].payload),
          !.writes = Drain([@ EXCEPT ![i].st = "done"])]
  /\ reqs' = ResumeAllUsers(reqs, userStore'.writes)
  /\ UNCHANGED <<file, file0, writes, commits, nextId, clock, faults, call>>

\* fs.writeFile of users.json fails, before or after it truncated the file
UserWriteFileFails(i, left) ==
  /\ i \in 1..Len(userStore.writes)
  /\ userStore.writes[i].st = "writing"
  /\ faults < MaxFaults
  /\ faults' = faults + 1
  /\ userStore' =
       [userStore EXCEPT
          !.file = left,
          !.writes = Drain([@ EXCEPT ![i].st = "failed", ![i].err = i])]
  /\ reqs' = ResumeAllUsers(reqs, userStore'.writes)
  /\ UNCHANGED <<file, file0, writes, commits, nextId, clock, call>>

\* the two stores next to each other: buyTicket on the ledger, deleteUser
\* on the users
InitStores ==
  /\ file = DocFile([draws |-> <<>>, tickets |-> <<SeedTicket(Null)>>])
  /\ file0 = file
  /\ reqs = [r \in Reqs |-> IdleReq]
  /\ writes = <<>>
  /\ commits = <<>>
  /\ nextId = 3
  /\ clock = 1
  /\ faults = 0
  /\ call = NoCall
  /\ userStore = [file |-> UsersFile(<<"alice", "root">>), writes |-> <<>>]

UserIdsIn == {"alice", "root", "nobody"}

NextStores ==
  \/ \E r \in Reqs, content \in Observable : BuyTicketRead(r, Alice, content)
  \/ \E r \in Reqs, S \in SampleStreams : BuyTicket(r, S)
  \/ \E i \in 1..MaxReqs : MkdirDone(i)
  \/ \E i \in 1..MaxReqs : MkdirFails(i)
  \/ \E i \in 1..MaxReqs : WriteFileDone(i)
  \/ \E i \in 1..MaxReqs, left \in {file, MalformedFile} :
       WriteFileFails(i, left)
  \/ \E r \in Reqs, requester \in Callers, id \in UserIdsIn,
        content \in ObservableUsers : DeleteUserRead(r, requester, id, content)
  \/ \E r \in Reqs : DeleteUser(r)
  \/ \E i \in 1..MaxReqs : UserMkdirDone(i)
  \/ \E i \in 1..MaxReqs : UserMkdirFails(i)
  \/ \E i \in 1..MaxReqs : UserWriteFileDone(i)
  \/ \E i \in 1..MaxReqs,
        left \in {userStore.file, [kind |-> "malformed", users |-> <<>>]} :
       UserWriteFileFails(i, left)

SpecStores == InitStores /\ [][NextStores]_vars

(* ------------------------- the users and their roles -------------------- *)
\* users.json with the role of each user ("" when none is stored), and the
\* routes that write it: PUT /api/users/:id of server.js and POST
\* /api/auth/register, which write the file themselves, and updateUser of
\* userController, which writes through its pendingWrite chain.
SeedUsers == <<[id |-> "alice", role |-> ""], [id |-> "root", role |-> "admin"]>>

NewUserId == "carol"

\* users.findIndex(u => u.id === id): 0 when there is none
findIndex(users, id) ==
  IF \E i \in 1..Len(users) : users[i].id = id
  THEN CHOOSE i \in 1..Len(users) :
         users[i].id = id /\ \A j \in 1..(i - 1) : users[j].id # id
  ELSE 0

\* the requests that are in writeUsers or in the writeJSON of register
Direct == {"mkdirDirect", "writingDirect"}

\* what a readFile of users.json can return, the writes outside the chain
\* included
ObservableUsersAll ==
  ObservableUsers \cup
  UNION { {[kind |-> "malformed", users |-> <<>>], UsersFile(reqs[r].users)} :
          r \in {q \in Reqs : reqs[q].pc = "writingDirect"} }

LedgerAndCall == <<file, file0, writes, commits, nextId, clock, call>>

\* PUT /api/users/:id of server.js: no middleware in front, readUsers
PutUserRead(r, requester, id, role, content) ==
  /\ Arrives(r)
  /\ reqs' = [reqs EXCEPT ![r].pc = "loaded", ![r].op = "putUser",
                          ![r].user = requester, ![r].target = id,
                          ![r].role = role,
                          ![r].users = loadUsers(content, FALSE)]
  /\ UNCHANGED <<LedgerAndCall, faults, userStore>>

\* users[idx] = { ...users[idx], ...req.body }, then writeUsers
PutUser(r) ==
  /\ reqs[r].pc = "loaded"
  /\ reqs[r].op = "putUser"
  /\ LET users == reqs[r].users
         idx   == findIndex(users, reqs[r].target)
     IN reqs' =
          IF idx = 0 THEN Reply(r, 404)
          ELSE [reqs EXCEPT
                  ![r].pc = "mkdirDirect",
                  ![r].users =
                     [users EXCEPT ![idx].role =
                        IF reqs[r].role # "" THEN reqs[r].role ELSE @]]
  /\ UNCHANGED <<LedgerAndCall, faults, userStore>>

\* register: readJSON(USERS_DB) ?? []
RegisterRead(r, content) ==
  /\ Arrives(r)
  /\ reqs' = [reqs EXCEPT ![r].pc = "loaded", ![r].op = "register",
                          ![r].target = NewUserId,
                          ![r].users = loadUsers(content, FALSE)]
  /\ UNCHANGED <<LedgerAndCall, faults, userStore>>

\* register from the users it read to writeJSON(USERS_DB, [...users, newUser])
Register(r) ==
  /\ reqs[r].pc = "loaded"
  /\ reqs[r].op = "register"
  /\ reqs' =
       IF findIndex(reqs[r].users, NewUserId) # 0 THEN Reply(r, 409)
       ELSE [reqs EXCEPT
               ![r].pc = "mkdirDirect",
               ![r].users = Append(@, [id |-> NewUserId, role |-> ""])]
  /\ UNCHANGED <<LedgerAndCall, faults, userStore>>

\* fs.mkdir of writeUsers or writeJSON completes; writeFile is issued
DirectMkdirDone(r) ==
  /\ reqs[r].pc = "mkdirDirect"
  /\ reqs' = [reqs EXCEPT ![r].pc = "writingDirect"]
  /\ UNCHANGED <<LedgerAndCall, faults, userStore>>

\* fs.writeFile completes and the handler answers
DirectWriteFileDone(r) ==
  /\ reqs[r].pc = "writingDirect"
  /\ userStore' = [userStore EXCEPT !.file = UsersFile(reqs[r].users)]
  /\ reqs' = Reply(r, IF reqs[r].op = "register" THEN 201 ELSE 200)
  /\ UNCHANGED <<LedgerAndCall, faults>>

\* fs.writeFile fails, before or after it truncated the file
DirectWriteFileFails(r, left) ==
  /\ reqs[r].pc = "writingDirect"
  /\ faults < MaxFaults
  /\ faults' = faults + 1
  /\ userStore' = [userStore EXCEPT !.file = left]
  /\ reqs' = Reply(r, 500)
  /\ UNCHANGED LedgerAndCall

\* updateUser receives a request: 403 unless owner or admin, else loadUsers
UpdateUserRead(r, requester, id, role, content) ==
  /\ Arrives(r)
  /\ reqs' = IF ~requester.present \/ (requester.id # id /\ ~isAdmin(requester))
             THEN [reqs EXCEPT ![r].pc = "done", ![r].op = "updateUser",
                               ![r].user = requester, ![r].target = id,
                               ![r].role = role, ![r].status = 403]
             ELSE [reqs EXCEPT ![r].pc = "loaded", ![r].op = "updateUser",
                               ![r].user = requester, ![r].target = id,
                               ![r].role = role,
                               ![r].users = loadUsers(content, FALSE)]
  /\ UNCHANGED <<LedgerAndCall, faults, userStore>>

\* if (role && isAdmin(requester)) updates.role = role
updates(requester, role, stored) ==
  IF role # "" /\ isAdmin(requester) THEN role ELSE stored

\* updateUser from the return of loadUsers to `await pendingWrite`
UpdateUser(r) ==
  /\ reqs[r].pc = "loaded"
  /\ reqs[r].op = "updateUser"
  /\ LET users == reqs[r].users
         idx   == findIndex(users, reqs[r].target)
     IN IF idx = 0
        THEN reqs' = Reply(r, 404) /\ UNCHANGED userStore
        ELSE UserEnqueue(r, [users EXCEPT ![idx].role =
                                updates(reqs[r].user, reqs[r].role, @)])
  /\ UNCHANGED <<LedgerAndCall, faults>>

InitUsers ==
  /\ file = MissingFile
  /\ file0 = file
  /\ reqs = [r \in Reqs |-> IdleReq]
  /\ writes = <<>>
  /\ commits = <<>>
  /\ nextId = 3
  /\ clock = 1
  /\ faults = 0
  /\ call = NoCall
  /\ userStore = [file |-> UsersFile(SeedUsers), writes |-> <<>>]

\* req.body.role of the requests: none, or one of the roles validateUpdate
\* lets through
BodyRoles == {"", "admin", "user"}

NextUsers ==
  \/ \E r \in Reqs, requester \in {Anon, Alice}, role \in BodyRoles,
        content \in ObservableUsersAll :
       PutUserRead(r, requester, "alice", role, content)
  \/ \E r \in Reqs : PutUser(r)
  \/ \E r \in Reqs, content \in ObservableUsersAll : RegisterRead(r, content)
  \/ \E r \in Reqs : Register(r)
  \/ \E r \in Reqs : DirectMkdirDone(r)
  \/ \E r \in Reqs : DirectWriteFileDone(r)
  \/ \E r \in Reqs,
        left \in {userStore.file, [kind |-> "malformed", users |-> <<>>]} :
       DirectWriteFileFails(r, left)
  \/ \E r \in Reqs, requester \in Callers, role \in BodyRoles,
        content \in ObservableUsersAll :
       UpdateUserRead(r, requester, "alice", role, content)
  \/ \E r \in Reqs : UpdateUser(r)
  \/ \E i \in 1..MaxReqs : UserMkdirDone(i)
  \/ \E i \in 1..MaxReqs : UserMkdirFails(i)
  \/ \E i \in 1..MaxReqs : UserWriteFileDone(i)
  \/ \E i \in 1..MaxReqs,
        left \in {userStore.file, [kind |-> "malformed", users |-> <<>>]} :
       UserWriteFileFails(i, left)

SpecUsers == InitUsers /\ [][NextUsers]_vars

(* ------------------------------ JSON text ------------------------------- *)
\* The text of a ledger file is a sequence of tokens, each token a sequence
\* of characters: punctuation and member names are one piece, numbers are
\* their decimal digits, strings are their characters between quotes.
\* The ids and timestamps of the model stand for the uuid and ISO strings
\* of the code and are written as strings, the ticket numbers as numbers.
\* White space (the indentation of JSON.stringify(data, null, 2)) is
\* between tokens and not kept.
Tok(piece) == <<piece>>

DigitChar(d) ==
  CASE d = 0 -> "0" [] d = 1 -> "1" [] d = 2 -> "2" [] d = 3 -> "3"
    [] d = 4 -> "4" [] d = 5 -> "5" [] d = 6 -> "6" [] d = 7 -> "7"
    [] d = 8 -> "8" [] d = 9 -> "9"

\* the decimal digits of a number that is not negative
RECURSIVE NumberToString(_)
NumberToString(n) ==
  IF n < 10 THEN <<DigitChar(n)>>
  ELSE NumberToString(n \div 10) \o <<DigitChar(n % 10)>>

Quote == "'"

\* a string value: its characters between quotes
StringToken(chars) == <<Quote>> \o chars \o <<Quote>>

NullToken == Tok("null")

IsNumberToken(t) == t # <<>> /\ \A i \in 1..Len(t) : t[i] \in Digits

IsStringToken(t) == Len(t) >= 2 /\ t[1] = Quote /\ t[Len(t)] = Quote

\* the characters of a string token
Unquote(t) == SubSeq(t, 2, Len(t) - 1)

\* a user id is written as it is
stringifyUserId(userId) == StringToken(<<userId>>)

\* an id or timestamp
stringifyId(id) == StringToken(NumberToString(id))

\* value, "," value, ...
RECURSIVE JoinTokens(_)
JoinTokens(items) ==
  IF items = <<>> THEN <<>>
  ELSE IF Len(items) = 1 THEN items[1]
  ELSE items[1] \o <<Tok(",")>> \o JoinTokens(Tail(items))

stringifyNumbers(numbers) ==
  <<Tok("[")>> \o
  JoinTokens([i \in 1..Len(numbers) |-> <<NumberToString(numbers[i])>>]) \o
  <<Tok("]")>>

stringifyDraw(d) ==
  <<Tok("{"), Tok("id"), Tok(":"), stringifyId(d.id), Tok(","),
    Tok("numbers"), Tok(":")>> \o stringifyNumbers(d.numbers) \o
  <<Tok(","), Tok("date"), Tok(":"), stringifyId(d.date), Tok("}")>>

\* a member whose value is null is left out, as for undefined
stringifyTicketNoNull(t) ==
  <<Tok("{"), Tok("id"), Tok(":"), stringifyId(t.id), Tok(","),
    Tok("userId"), Tok(":"), stringifyUserId(t.userId), Tok(","),
    Tok("numbers"), Tok(":")>> \o stringifyNumbers(t.numbers) \o
  (IF t.drawId = Null THEN <<>>
   ELSE <<Tok(","), Tok("drawId"), Tok(":"), stringifyId(t.drawId)>>) \o
  <<Tok(","), Tok("purchasedAt"), Tok(":"), stringifyId(t.purchasedAt),
    Tok("}")>>

stringifyTicket(t) ==
  <<Tok("{"), Tok("id"), Tok(":"), stringifyId(t.id), Tok(","),
    Tok("userId"), Tok(":"), stringifyUserId(t.userId), Tok(","),
    Tok("numbers"), Tok(":")>> \o stringifyNumbers(t.numbers) \o
  <<Tok(","), Tok("drawId"), Tok(":"),
    IF t.drawId = Null THEN NullToken ELSE stringifyId(t.drawId),
    Tok(","), Tok("purchasedAt"), Tok(":"), stringifyId(t.purchasedAt),
    Tok("}")>>

\* JSON.stringify(data, null, 2) of a ledger document
stringify(doc) ==
  <<Tok("{"), Tok("draws"), Tok(":"), Tok("[")>> \o
  JoinTokens([i \in 1..Len(doc.draws) |-> stringifyDraw(doc.draws[i])]) \o
  <<Tok("]"), Tok(","), Tok("tickets"), Tok(":"), Tok("[")>> \o
  JoinTokens([i \in 1..Len(doc.tickets) |-> stringifyTicket(doc.tickets[i])]) \o
  <<Tok("]"), Tok("}")>>

\* the tokens of an object of the ledger, "?" where a value stands
Hole == Tok("?")

NumbersShape ==
  <<Tok("["), Hole, Tok(","), Hole, Tok(","), Hole, Tok(","), Hole, Tok(","),
    Hole, Tok(","), Hole, Tok("]")>>

DrawShape ==
  <<Tok("{"), Tok("id"), Tok(":"), Hole, Tok(","), Tok("numbers"), Tok(":")>>
  \o NumbersShape \o
  <<Tok(","), Tok("date"), Tok(":"), Hole, Tok("}")>>

TicketShape ==
  <<Tok("{"), Tok("id"), Tok(":"), Hole, Tok(","), Tok("userId"), Tok(":"),
    Hole, Tok(","), Tok("numbers"), Tok(":")>> \o NumbersShape \o
  <<Tok(","), Tok("drawId"), Tok(":"), Hole, Tok(","), Tok("purchasedAt"),
    Tok(":"), Hole, Tok("}")>>

Holes(shape) == {i \in 1..Len(shape) : shape[i] = Hole}

\* the i-th value of an object, in the order of its text
ValueAt(chunk, shape, i) ==
  LET RECURSIVE Nth(_, _)
      Nth(from, n) ==
        IF shape[from] = Hole
        THEN IF n = 1 THEN from ELSE Nth(from + 1, n - 1)
        ELSE Nth(from + 1, n)
  IN chunk[Nth(1, i)]

\* the text has the punctuation and the member names of the shape
Matches(chunk, shape) ==
  /\ Len(chunk) = Len(shape)
  /\ \A i \in 1..Len(shape) : i \notin Holes(shape) => chunk[i] = shape[i]

IsIdToken(t) == IsStringToken(t) /\ IsNumberToken(Unquote(t))

parseId(t) == ReadDigits(Unquote(t), 0)

parseDraw(chunk) ==
  IF /\ Matches(chunk, DrawShape)
     /\ IsIdToken(ValueAt(chunk, DrawShape, 1))
     /\ \A i \in 2..7 : IsNumberToken(ValueAt(chunk, DrawShape, i))
     /\ IsIdToken(ValueAt(chunk, DrawShape, 8))
  THEN <<[id |-> parseId(ValueAt(chunk, DrawShape, 1)),
          numbers |-> [i \in 1..6 |->
                         ReadDigits(ValueAt(chunk, DrawShape, i + 1), 0)],
          date |-> parseId(ValueAt(chunk, DrawShape, 8))]>>
  ELSE <<>>

parseTicket(chunk) ==
  IF /\ Matches(chunk, TicketShape)
     /\ IsIdToken(ValueAt(chunk, TicketShape, 1))
     /\ IsStringToken(ValueAt(chunk, TicketShape, 2))
     /\ Len(ValueAt(chunk, TicketShape, 2)) = 3
     /\ \A i \in 3..8 : IsNumberToken(ValueAt(chunk, TicketShape, i))
     /\ \/ ValueAt(chunk, TicketShape, 9) = NullToken
        \/ IsIdToken(ValueAt(chunk, TicketShape, 9))
     /\ IsIdToken(ValueAt(chunk, TicketShape, 10))
  THEN <<[id |-> parseId(ValueAt(chunk, TicketShape, 1)),
          userId |-> Unquote(ValueAt(chunk, TicketShape, 2))[1],
          numbers |-> [i \in 1..6 |->
                         ReadDigits(ValueAt(chunk, TicketShape, i + 2), 0)],
          drawId |-> IF ValueAt(chunk, TicketShape, 9) = NullToken THEN Null
                     ELSE parseId(ValueAt(chunk, TicketShape, 9)),
          purchasedAt |-> parseId(ValueAt(chunk, TicketShape, 10))]>>
  ELSE <<>>

\* an array of objects from text[pos] (behind "["): the objects and the
\* place behind "]", or ok = FALSE for a SyntaxError
RECURSIVE ParseArray(_, _, _, _)
ParseArray(text, pos, kind, items) ==
  LET size  == IF kind = "draw" THEN Len(DrawShape) ELSE Len(TicketShape)
      chunk == SubSeq(text, pos, pos + size - 1)
      item  == IF kind = "draw" THEN parseDraw(chunk) ELSE parseTicket(chunk)
      after == pos + size
  IN IF pos > Len(text) THEN [ok |-> FALSE, items |-> <<>>, pos |-> pos]
     ELSE IF items = <<>> /\ text[pos] = Tok("]")
          THEN [ok |-> TRUE, items |-> <<>>, pos |-> pos + 1]
     ELSE IF after > Len(text) \/ item = <<>>
          THEN [ok |-> FALSE, items |-> <<>>, pos |-> pos]
     ELSE IF text[after] = Tok("]")
          THEN [ok |-> TRUE, items |-> items \o item, pos |-> after + 1]
     ELSE IF text[after] = Tok(",")
          THEN ParseArray(text, after + 1, kind, items \o item)
     ELSE [ok |-> FALSE, items |-> <<>>, pos |-> pos]

\* JSON.parse of the text of a ledger file: the document, or a SyntaxError
parse(text) ==
  LET syntaxError == [error |-> TRUE, doc |-> EmptyDoc]
      head == <<Tok("{"), Tok("draws"), Tok(":"), Tok("[")>>
      mid  == <<Tok(","), Tok("tickets"), Tok(":"), Tok("[")>>
  IN IF Len(text) < 4 \/ SubSeq(text, 1, 4) # head THEN syntaxError
     ELSE LET ds == ParseArray(text, 5, "draw", <<>>)
          IN IF ~ds.ok \/ ds.pos + 3 > Len(text)
                \/ SubSeq(text, ds.pos, ds.pos + 3) # mid
             THEN syntaxError
             ELSE LET ts == ParseArray(text, ds.pos + 4, "ticket", <<>>)
                  IN IF ~ts.ok \/ ts.pos # Len(text)
                        \/ text[ts.pos] # Tok("}")
                     THEN syntaxError
                     ELSE [error |-> FALSE,
                           doc |-> [draws |-> ds.items, tickets |-> ts.items]]

(* --------------------------- save and load ------------------------------ *)
\* A file whose bytes are kept: the text that writeFile stored, or the
\* part of it that is on disk while writeFile runs.
TextFile(text) == [kind |-> "text", text |-> text]

\* readJSON on the bytes: null for ENOENT and for a SyntaxError
readJSONText(content) ==
  IF content.kind = "missing" THEN [null |-> TRUE, data |-> EmptyDoc]
  ELSE LET parsed == parse(content.text)
       IN [null |-> parsed.error, data |-> parsed.doc]

\* the documents that are saved: the ledgers of the other specifications
WellFormedDocs ==
  {EmptyDoc} \cup
  {f.doc : f \in {g \in InitFiles \cup ResultFiles \cup ListFiles
                              \cup ServerFiles : g.kind = "doc"}}

\* what the path holds before the save: nothing, a longer document, a
\* shorter one, or the first tokens of one
PriorFiles ==
  {MissingFile, TextFile(stringify(TiedLedger)), TextFile(stringify(EmptyDoc)),
   TextFile(SubSeq(stringify(PlayedLedger), 1, 9))}

\* the tokens on disk while writeFile runs: none, or the first half
PartlyWritten(text) == {<<>>, SubSeq(text, 1, Len(text) \div 2)}

InitSaves ==
  /\ file \in PriorFiles
  /\ file0 = file
  /\ reqs = [r \in Reqs |-> IdleReq]
  /\ writes = <<>>
  /\ commits = <<>>
  /\ nextId = 3
  /\ clock = 1
  /\ faults = 0
  /\ call \in {CallOf("writeJSON", <<x>>) : x \in WellFormedDocs}
  /\ userStore = NoUsers

ExceptFileAndCall == <<file0, reqs, writes, commits, nextId, clock, faults, userStore>>

\* writeJSON up to the start of writeFile: the file is opened for writing
\* and holds a part of the new text
WriteJSONStarts ==
  /\ call.fn \in {"writeJSON", "writeJSONAgain"}
  /\ \E part \in PartlyWritten(stringify(call.args[Len(call.args)])) :
       file' = TextFile(part)
  /\ call' = [call EXCEPT !.fn = IF call.fn = "writeJSON" THEN "writing"
                                  ELSE "writingAgain"]
  /\ UNCHANGED ExceptFileAndCall

\* writeFile is done: the file holds the text of the data and nothing else
WriteJSONCompletes ==
  /\ call.fn \in {"writing", "writingAgain"}
  /\ file' = TextFile(stringify(call.args[Len(call.args)]))
  /\ call' = [call EXCEPT !.fn = IF call.fn = "writing" THEN "written"
                                  ELSE "writtenAgain",
                          !.done = (call.fn = "writingAgain")]
  /\ UNCHANGED ExceptFileAndCall

\* readJSON after the save has completed
ReadJSONCall ==
  /\ call.fn = "written"
  /\ call' = [call EXCEPT !.fn = "read", !.ret = <<readJSONText(file)>>]
  /\ UNCHANGED <<file, file0, reqs, writes, commits, nextId, clock, faults,
                 userStore>>

\* readJSON while writeFile runs
ReadJSONEarly ==
  /\ call.fn = "writing"
  /\ call' = [call EXCEPT !.fn = "readEarly", !.ret = <<readJSONText(file)>>,
                          !.done = TRUE]
  /\ UNCHANGED <<file, file0, reqs, writes, commits, nextId, clock, faults,
                 userStore>>

\* the document that was read is saved again
WriteJSONAgain ==
  /\ call.fn = "read" /\ ~call.ret[1].null
  /\ call' = [call EXCEPT !.fn = "writeJSONAgain",
                          !.args = call.args \o <<call.ret[1].data>>]
  /\ UNCHANGED <<file, file0, reqs, writes, commits, nextId, clock, faults,
                 userStore>>

NextSaves ==
  \/ WriteJSONStarts
  \/ WriteJSONCompletes
  \/ ReadJSONCall
  \/ ReadJSONEarly
  \/ WriteJSONAgain

SpecSaves == InitSaves /\ [][NextSaves]_vars

(* --------------------- operations run one at a time --------------------- *)
\* An id that no ticket and no draw of the ledger carries (uuidv4).
FreshId(db) ==
  LET used == {t.id : t \in Range(db.tickets)} \cup {d.id : d \in Range(db.draws)}
  IN CHOOSE n \in 1..(Cardinality(used) + 1) : n \notin used

\* the ledger after buyTicket of a user ran alone, from loadDB to the end
\* of its write, nothing failing: unchanged when a cap answers 429
buyTicketAlone(db, userId) ==
  IF globalCapReached(db) \/ userCapReached(db, userId) THEN db
  ELSE buyPayload(db, newTicket(FreshId(db), userId, SeedNumbers, 0))

\* the ledger after draw of an admin ran alone: unchanged when it answers 400
drawAlone(db) ==
  IF openDraw(db) THEN db
  ELSE drawPayload(db, newDraw(FreshId(db), SeedNumbers, 0))

\* some sequence of at most n buyTicket and draw calls, one after the
\* other, ends with a draw that is answered 201
RECURSIVE DrawCanSucceed(_, _)
DrawCanSucceed(db, n) ==
  \/ ~openDraw(db)
  \/ /\ n > 0
     /\ \E next \in {buyTicketAlone(db, u) : u \in {Alice.id, Root.id}}
                    \cup {drawAlone(db)} :
          next # db /\ DrawCanSucceed(next, n - 1)

\* while a draw is unfilled only buyTicket changes the ledger, each time by
\* one pending ticket, and the global cap stops it: no sequence that changes
\* the ledger is longer
LongestSequence == MAX_TICKETS_PER_DRAW + 1

(* ============================== properties ============================== *)
Last(s) == s[Len(s)]

\* no request is between its arrival and its answer
Quiescent == \A r \in Reqs : reqs[r].pc \in {"idle", "done"}

Arrived == {r \in Reqs : reqs[r].pc # "idle"}

\* the draws of a document that no ticket of the document references
UnreferencedDraws(doc) ==
  {d \in Range(doc.draws) : \A t \in Range(doc.tickets) : t.drawId # d.id}

\* the write of index i ran its callback (writeJSON was called)
Ran(i) == writes[i].st \in Executing \cup {"done", "failed"}

\* C1: when N concurrent buyTicket requests have all been answered 201 and
\* no file operation failed, the file holds exactly N tickets more than
\* when the first of them arrived.
C1_NoAcknowledgedTicketLost ==
  ( /\ Arrived # {}
    /\ Quiescent
    /\ faults = 0
    /\ \A r \in Arrived : reqs[r].op = "buy" /\ reqs[r].status = 201 )
  => /\ file.kind = "doc"
     /\ Len(file.doc.tickets) = Len(file0.doc.tickets) + Cardinality(Arrived)

\* C2: when no file operation failed, a write that commits was computed
\* from the document that is in the file when it commits (the latest
\* commit), not from an older snapshot.
C2_WriteComputedFromLatestCommit ==
  [][ \A i \in 1..Len(writes) :
        (faults = 0 /\ writes[i].st = "writing" /\ writes'[i].st = "done")
        => reqs[writes[i].owner].loaded = loadDB(file, FALSE) ]_vars

\* C3: at most one write of the chain is executing (between the call of
\* writeJSON and its completion), and a write has started only if the write
\* enqueued before it has completed.
C3_AtMostOneWriteExecuting ==
  /\ Cardinality({i \in 1..Len(writes) : writes[i].st \in Executing}) <= 1
  /\ \A i \in 2..Len(writes) : Ran(i) => writes[i - 1].st \in Settled

C3_Witness ==
  \E i, j \in 1..Len(writes) :
    i < j /\ writes[i].st = "writing" /\ writes[j].st = "queued"

\* C4: writes reach the file in the order in which writeDBAtomic was called,
\* and when every write succeeded the file holds the payload enqueued last.
C4_CommitOrderIsEnqueueOrder ==
  /\ \A a, b \in 1..Len(commits) : a < b => commits[a] < commits[b]
  /\ (writes # <<>> /\ \A i \in 1..Len(writes) : writes[i].st = "done")
     => file = DocFile(Last(writes).payload)

C4_Witness ==
  /\ Len(commits) >= 2
  /\ \A i \in 1..Len(writes) : writes[i].st = "done"
  /\ writes[1].payload # writes[2].payload

\* C5: a write enqueued behind a write that failed is still executed.
C5_WritesBehindAFailureRun ==
  \A i, j \in 1..Len(writes) :
    (i < j /\ writes[i].st = "failed") => Ran(j)

\* C6: a request is answered with a write error only if its own write
\* failed.
C6_ErrorOnlyForOwnWrite ==
  \A r \in Reqs :
    reqs[r].status = 500
    => writes[reqs[r].job].st = "failed" /\ reqs[r].err = reqs[r].job

\* C7: in the file, a ticket's drawId that is not null never changes.
C7_DrawIdNeverReassigned ==
  [][ (file.kind = "doc" /\ file'.kind = "doc")
      => \A t \in Range(file.doc.tickets), u \in Range(file'.doc.tickets) :
           (t.id = u.id /\ t.drawId # Null) => u.drawId = t.drawId ]_vars

\* the file right after the commit of the write of request r
JustCommittedBy(r) ==
  /\ reqs[r].status = 201
  /\ commits # <<>>
  /\ Last(commits) = reqs[r].job
  /\ file.kind = "doc"

C9_UnfilledDrawRejectsDraw ==
  \A r \in Reqs :
    ( /\ reqs[r].op = "draw"
      /\ reqs[r].pc \in {"awaiting", "done"}
      /\ isAdmin(reqs[r].user)
      /\ UnreferencedDraws(reqs[r].loaded) # {} )
    => /\ reqs[r].status = 400
       /\ reqs[r].made = 0
       /\ reqs[r].job = 0
       /\ \A i \in 1..Len(writes) : writes[i].owner # r

C9_Witness ==
  \E r \in Reqs :
    /\ reqs[r].op = "draw"
    /\ reqs[r].status = 400
    /\ Len(reqs[r].loaded.draws) >= 2

\* C10: in the file, at most one draw is referenced by no ticket.
C10_AtMostOneUnfilledDraw ==
  file.kind = "doc" => Cardinality(UnreferencedDraws(file.doc)) <= 1

C10_Witness ==
  /\ file.kind = "doc"
  /\ Len(file.doc.draws) >= 2
  /\ Cardinality(UnreferencedDraws(file.doc)) = 1

\* the tickets of a document that are assigned to no draw
Pending(doc) == {i \in 1..Len(doc.tickets) : doc.tickets[i].drawId = Null}

\* those of them that a user owns
PendingOf(doc, userId) ==
  {i \in Pending(doc) : doc.tickets[i].userId = userId}

UserIds == {u.id : u \in Callers} \ {""}

\* the buyTicket requests that are past the cap checks
BuyDecided ==
  {r \in Reqs : /\ reqs[r].op = "buy"
                /\ reqs[r].pc \in {"awaiting", "done"}
                /\ reqs[r].user.id # ""}

\* C11: in the ledger the file holds, at most MAX_TICKETS_PER_DRAW tickets
\* are assigned to no draw, whatever the interleaving of buyTicket and draw.
C11_GlobalPendingCap ==
  file.kind = "doc" => Cardinality(Pending(file.doc)) <= MAX_TICKETS_PER_DRAW

C11_Witness ==
  /\ file.kind = "doc"
  /\ commits # <<>>
  /\ Cardinality(Pending(file.doc)) = MAX_TICKETS_PER_DRAW
  /\ \E r \in BuyDecided : reqs[r].status = 429

\* C12: in the ledger the file holds, no user owns more than
\* MAX_TICKETS_PER_USER tickets that are assigned to no draw.
C12_UserPendingCap ==
  file.kind = "doc" =>
    \A u \in UserIds :
      Cardinality(PendingOf(file.doc, u)) <= MAX_TICKETS_PER_USER

C12_Witness ==
  /\ file.kind = "doc"
  /\ commits # <<>>
  /\ Cardinality(PendingOf(file.doc, "alice")) = MAX_TICKETS_PER_USER
  /\ Cardinality(PendingOf(file0.doc, "alice")) < MAX_TICKETS_PER_USER
  /\ \E r \in BuyDecided : reqs[r].user.id = "alice" /\ reqs[r].status = 429

\* C13: a buyTicket whose loaded ledger holds MAX_TICKETS_PER_DRAW or more
\* pending tickets, or MAX_TICKETS_PER_USER or more pending tickets of the
\* caller, is answered 429 and creates nothing; one whose loaded ledger is
\* below both caps (at MAX_TICKETS_PER_DRAW - 1 in particular) creates its
\* ticket and is answered 201 when its write completes.  Tickets assigned
\* to a draw are not counted.
C13_CapBoundaries ==
  \A r \in BuyDecided :
    LET g   == Cardinality(Pending(reqs[r].loaded))
        own == Cardinality(PendingOf(reqs[r].loaded, reqs[r].user.id))
    IN IF g >= MAX_TICKETS_PER_DRAW \/ own >= MAX_TICKETS_PER_USER
       THEN reqs[r].status = 429 /\ reqs[r].job = 0 /\ reqs[r].made = 0
       ELSE /\ reqs[r].status # 429
            /\ reqs[r].job \in 1..Len(writes)
            /\ writes[reqs[r].job].owner = r
            /\ writes[reqs[r].job].st = "done" => reqs[r].status = 201

C13_Witness ==
  /\ \E r \in BuyDecided :
       /\ Cardinality(Pending(reqs[r].loaded)) = MAX_TICKETS_PER_DRAW - 1
       /\ reqs[r].status = 201
  /\ \E r \in BuyDecided :
       /\ Cardinality(Pending(reqs[r].loaded)) = MAX_TICKETS_PER_DRAW
       /\ reqs[r].status = 429

\* a ticket assigned to a draw is in the loaded ledger of a buyTicket that
\* is answered 201
C13_AssignedNotCounted ==
  \E r \in BuyDecided :
    /\ reqs[r].status = 201
    /\ \E t \in Range(reqs[r].loaded.tickets) :
         t.drawId # Null /\ t.userId = reqs[r].user.id

\* the number arrays of the tickets and draws of a document
NumberArrays(doc) ==
  {t.numbers : t \in Range(doc.tickets)} \cup {d.numbers : d \in Range(doc.draws)}

\* exactly 6 pairwise distinct integers of 1..49
SixDistinctInRange(a) ==
  /\ Len(a) = 6
  /\ \A i \in 1..Len(a) : a[i] \in 1..49
  /\ \A i, j \in 1..Len(a) : i # j => a[i] # a[j]

\* C20: the numbers of every ticket and of every draw, in the file and in
\* every document handed to the write chain, are exactly 6 pairwise
\* distinct integers, each in 1..49.
C20_SixDistinctNumbers ==
  /\ file.kind = "doc" => \A a \in NumberArrays(file.doc) : SixDistinctInRange(a)
  /\ \A i \in 1..Len(writes) :
       \A a \in NumberArrays(writes[i].payload) : SixDistinctInRange(a)

\* the file holds a ticket and a draw made in this run, one from a stream
\* of random values that repeats a value and reaches 49, one from a
\* stream that reaches 1
C20_Witness ==
  /\ file.kind = "doc"
  /\ \E t \in Range(file.doc.tickets), d \in Range(file.doc.draws) :
       /\ t.id >= 3 /\ d.id >= 3
       /\ {t.numbers, d.numbers} =
            {<<3, 12, 19, 27, 41, 49>>, <<1, 3, 8, 19, 33, 44>>}

\* the admin predicate: the role when there is one, else the address
AdminCaller(u) ==
  /\ u.present
  /\ \/ u.role = "admin"
     \/ u.role = "" /\ EndsWith(u.email, AdminSuffix)

\* C14: a draw requested by a caller that does not satisfy the admin
\* predicate is answered 403 without the ledger being loaded, makes no draw
\* and enqueues no write; every write of a draw belongs to an admin.
C14_DrawNeedsAdmin ==
  /\ \A r \in Reqs :
       (reqs[r].op = "draw" /\ ~AdminCaller(reqs[r].user))
       => /\ reqs[r].pc = "done"
          /\ reqs[r].status = 403
          /\ reqs[r].loaded = EmptyDoc
          /\ reqs[r].made = 0
          /\ reqs[r].job = 0
          /\ \A i \in 1..Len(writes) : writes[i].owner # r
  /\ \A i \in 1..Len(writes) :
       reqs[writes[i].owner].op = "draw"
       => AdminCaller(reqs[writes[i].owner].user)

C14_Witness ==
  \E r, q \in Reqs :
    /\ reqs[r].op = "draw" /\ reqs[r].user = Mallory /\ reqs[r].status = 403
    /\ reqs[q].op = "draw" /\ reqs[q].user = Root /\ reqs[q].status = 201
    /\ file.kind = "doc"
    /\ \E d \in Range(file.doc.draws) : d.id = reqs[q].made

\* C15: isAdmin(identity) is true when the role is admin, otherwise true
\* when the email ends in @admin.com, and false in every other case,
\* an absent identity included; a role that is not admin leaves the
\* decision to the email.
C15_IsAdminRoleElseEmail ==
  (call.fn = "isAdmin" /\ call.done) =>
    LET u == call.args[1]
    IN call.ret = ( /\ u.present
                    /\ \/ u.role = "admin"
                       \/ EndsWith(u.email, AdminSuffix) )

\* C18: countMatches(T, D) is the size of the intersection of T and D,
\* equals countMatches(D, T) and is the same for every order of the
\* elements of T and of D.
C18_CountMatchesIsIntersection ==
  (call.fn = "countMatches" /\ call.done) =>
    LET T == call.args[1]
        D == call.args[2]
    IN /\ call.ret = Cardinality(Range(T) \cap Range(D))
       /\ call.ret = countMatches(D, T)
       /\ \A T2, D2 \in NumberArraysIn :
            (Range(T2) = Range(T) /\ Range(D2) = Range(D))
            => countMatches(T2, D2) = call.ret

\* a descending ticket against a rotated draw with 4 numbers in common
C18_Witness ==
  /\ call.fn = "countMatches" /\ call.done
  /\ call.args[1] = <<49, 41, 27, 19, 12, 3>>
  /\ call.args[2] = <<12, 19, 27, 33, 44, 3>>
  /\ call.ret = 4

\* the results requests that have been answered
ResultsAnswered == {r \in Reqs : reqs[r].op = "results" /\ reqs[r].pc = "done"}

\* C16: every entry of myResults is a ticket of the loaded ledger whose
\* userId is the caller's id and whose drawId is the requested one; no
\* ticket of another user is among them.
C16_OnlyOwnTicketsOfTheDraw ==
  \A r \in ResultsAnswered :
    LET entries == Range(reqs[r].body.myResults)
        tickets == Range(reqs[r].loaded.tickets)
    IN /\ \A e \in entries :
            \E t \in tickets : /\ t.id = e.ticketId
                               /\ t.numbers = e.numbers
                               /\ t.userId = reqs[r].user.id
                               /\ t.drawId = reqs[r].arg
       /\ \A t \in tickets :
            t.userId # reqs[r].user.id
            => \A e \in entries : e.ticketId # t.id

\* a caller gets two results of a draw that also holds another user's ticket
C16_Witness ==
  \E r \in ResultsAnswered :
    /\ reqs[r].status = 200
    /\ Len(reqs[r].body.myResults) = 2
    /\ \E t \in Range(reqs[r].loaded.tickets) :
         t.drawId = reqs[r].arg /\ t.userId # reqs[r].user.id

\* C17: a results request of a caller with an id is answered 404 exactly
\* when the loaded ledger has no draw with the requested id; a caller
\* without an id is answered 401 and no ledger is loaded.
C17_NotFoundIffNoSuchDraw ==
  \A r \in ResultsAnswered :
    IF reqs[r].user.id = ""
    THEN reqs[r].status = 401 /\ reqs[r].loaded = EmptyDoc
    ELSE /\ reqs[r].status \in {200, 404}
         /\ reqs[r].status = 404
            <=> ~ \E d \in Range(reqs[r].loaded.draws) : d.id = reqs[r].arg
         /\ reqs[r].status = 200 => reqs[r].body.draw.id = reqs[r].arg

\* 404 for an id that none of the two draws of the ledger has, next to a 401
C17_Witness ==
  \E r, q \in ResultsAnswered :
    /\ reqs[r].status = 404 /\ Len(reqs[r].loaded.draws) = 2
    /\ reqs[q].status = 401

\* the prize entries of the answers
PrizeEntries ==
  UNION {Range(reqs[r].body.myResults) : r \in ResultsAnswered}

Pos(seq, x) == CHOOSE i \in 1..Len(seq) : seq[i] = x

ListDrawsAnswered ==
  {r \in Reqs : reqs[r].op = "listDraws" /\ reqs[r].pc = "done"}

\* C21: listDraws returns every draw of the loaded ledger exactly once,
\* later dates first, draws of equal date in their order in the ledger,
\* and the draws of the ledger itself stay as they were loaded.
C21_DrawsNewestFirstStable ==
  \A r \in ListDrawsAnswered :
    LET res == reqs[r].body.draws
        src == reqs[r].loaded.draws
    IN /\ Len(res) = Len(src)
       /\ \A d \in Range(src) :
            Cardinality({i \in 1..Len(res) : res[i] = d}) = 1
       /\ \A i, j \in 1..Len(res) :
            i < j => /\ res[i].date >= res[j].date
                     /\ res[i].date = res[j].date
                        => Pos(src, res[i]) < Pos(src, res[j])
       /\ src \in {loadDB(file, FALSE).draws, <<>>}

\* three draws, the two of the same date in the order of the ledger
C21_Witness ==
  \E r \in ListDrawsAnswered :
    /\ Len(reqs[r].body.draws) = 3
    /\ reqs[r].body.draws[1].id = 7
    /\ reqs[r].body.draws[2].id = 9
    /\ reqs[r].body.draws[2].date = reqs[r].body.draws[1].date
    /\ reqs[r].body.draws[3].id = 4

\* the query values that are a decimal integer, with the integer
IntegerQueries ==
  { <<<<"0">>, 0>>, <<<<"1">>, 1>>, <<<<"2">>, 2>>, <<<<"3">>, 3>>,
    <<<<"-", "1">>, 0 - 1>>, <<<<"-", "2">>, 0 - 2>> }

\* the query values that are missing or no number at all
NonNumericQueries == { Undefined, <<"a", "b", "c">>, <<>> }

\* max(1, value), a missing, zero or non-numeric value giving the fallback
ClampedQuery(chars, fallback) ==
  IF chars \in NonNumericQueries \/ chars = <<"0">> THEN fallback
  ELSE LET v == (CHOOSE q \in IntegerQueries : q[1] = chars)[2]
       IN IF v >= 1 THEN v ELSE 1

MyTicketsAnswered ==
  {r \in Reqs : /\ reqs[r].op = "myTickets"
                /\ reqs[r].pc = "done"
                /\ reqs[r].status = 200}

C23_ReadErrorFailsTheOperation ==
  \A r \in Reqs :
    (reqs[r].readErr /\ reqs[r].pc \in {"awaiting", "done"})
    => /\ reqs[r].status = 500
       /\ reqs[r].job = 0
       /\ \A i \in 1..Len(writes) : writes[i].owner # r

\* C24: while the file is missing or does not parse, no request fails in
\* loadDB and every operation works on the empty ledger: listDraws returns
\* no draws, myTickets no tickets, results finds no draw, and the first
\* buyTicket to enqueue a write commits a document that holds exactly its
\* one new ticket and no draw.
C24_MissingOrMalformedIsEmptyLedger ==
  file0.kind \in {"missing", "malformed"} =>
    /\ writes = <<>> =>
         \A r \in Reqs :
           /\ reqs[r].status # 500
           /\ reqs[r].loaded = EmptyDoc
           /\ (reqs[r].op = "listDraws" /\ reqs[r].pc = "done")
              => reqs[r].status = 200 /\ reqs[r].body.draws = <<>>
           /\ (reqs[r].op = "myTickets" /\ reqs[r].pc = "done"
                 /\ reqs[r].user.id # "")
              => /\ reqs[r].status = 200
                 /\ reqs[r].body.tickets = <<>>
                 /\ reqs[r].body.totalTickets = 0
           /\ (reqs[r].op = "results" /\ reqs[r].pc = "done"
                 /\ reqs[r].user.id # "")
              => reqs[r].status = 404
    /\ \A r \in Reqs :
         (reqs[r].op = "buy" /\ reqs[r].job = 1)
         => /\ writes[1].payload.draws = <<>>
            /\ Len(writes[1].payload.tickets) = 1
            /\ writes[1].payload.tickets[1].id = reqs[r].made
            /\ writes[1].payload.tickets[1].userId = reqs[r].user.id
            /\ writes[1].payload.tickets[1].drawId = Null
            /\ writes[1].st = "done" => reqs[r].status = 201
            /\ (commits = <<1>> /\ file.kind = "doc")
               => file.doc = writes[1].payload

\* the file does not parse: a listDraws is answered with no draws, and a
\* buyTicket after it is answered 201 and leaves a one-ticket ledger
C24_Witness ==
  /\ file0.kind = "malformed"
  /\ \E r, q \in Reqs :
       /\ reqs[r].op = "listDraws" /\ reqs[r].status = 200
       /\ reqs[r].body.draws = <<>>
       /\ reqs[q].op = "buy" /\ reqs[q].status = 201 /\ reqs[q].job = 1
  /\ file.kind = "doc"
  /\ Len(file.doc.tickets) = 1

\* the answers of a request that was turned away
Rejections == {400, 401, 403, 404, 429}

\* the requests that read only, and those that were turned away
ReadOnlyOrRejected(rq) ==
  \/ rq.op \in {"myTickets", "listDraws", "results"}
  \/ rq.status \in Rejections

\* C29: a request that is rejected (401, 429, 403, 400, 404) and a
\* myTickets, listDraws or results request own no write of the chain, and
\* none of their steps changes the file or the chain of writes.
C29_ReadsAndRejectionsWriteNothing ==
  /\ [](\A r \in Reqs :
          ReadOnlyOrRejected(reqs[r])
          => /\ reqs[r].job = 0
             /\ \A i \in 1..Len(writes) : writes[i].owner # r)
  /\ [][\A r \in Reqs :
          (reqs'[r] # reqs[r] /\ ReadOnlyOrRejected(reqs'[r]))
          => file' = file /\ writes' = writes /\ commits' = commits]_vars

\* results is answered 404, from a ledger read while the writeFile of a
\* buyTicket or draw is running
C29_Witness ==
  \E r, q \in Reqs :
    /\ reqs[r].op \in {"buy", "draw"}
    /\ reqs[r].job # 0
    /\ writes[reqs[r].job].st = "writing"
    /\ reqs[q].op = "results"
    /\ reqs[q].status = 404

\* a write of a chain is held (still queued) only behind an unfinished
\* write of the same chain, and is rejected without running only behind a
\* failed write of the same chain
HeldAndFailedByOwnChainOnly(ws) ==
  \A i \in 1..Len(ws) :
    /\ ws[i].st = "queued"
       => \E j \in 1..(i - 1) : ws[j].st \in Executing \cup {"queued"}
    /\ ws[i].st = "rejected" => \E j \in 1..(i - 1) : ws[j].st = "failed"

\* C25: the chain of the ledger and the chain of the user store are
\* independent: a write waits only for writes of its own store and fails
\* without running only after a failed write of its own store, and a
\* request is answered 500 only when a write of its own store failed.
C25_StoresSerializedIndependently ==
  /\ HeldAndFailedByOwnChainOnly(writes)
  /\ HeldAndFailedByOwnChainOnly(userStore.writes)
  /\ \A r \in Reqs :
       reqs[r].status = 500
       => IF reqs[r].op = "deleteUser"
          THEN \E j \in 1..Len(userStore.writes) : userStore.writes[j].st = "failed"
          ELSE \E j \in 1..Len(writes) : writes[j].st = "failed"

\* a deleteUser that arrived behind a buyTicket is answered 200 while the
\* write of the buyTicket is still running
C25_Witness ==
  \E r, q \in Reqs :
    /\ r < q
    /\ reqs[r].op = "buy" /\ reqs[r].pc = "awaiting"
    /\ writes[reqs[r].job].st \in Executing
    /\ reqs[q].op = "deleteUser" /\ reqs[q].status = 200
    /\ userStore.file = UsersFile(<<"root">>)

\* a deleteUser is answered 200 after the write of a buyTicket failed
C25_AfterFailure ==
  \E r, q \in Reqs :
    /\ reqs[r].op = "buy" /\ reqs[r].status = 500
    /\ reqs[q].op = "deleteUser" /\ reqs[q].status = 200
    /\ writes[reqs[r].job].st = "failed"

\* C26: loading the file after a save of a well-formed document x has
\* completed yields the draws and the tickets of x, fields and order kept;
\* saving the loaded document again leaves the stored text as it was; and
\* after each completed save the file holds the text of the saved document
\* and nothing of what the path held before.
C26_SaveLoadRoundTrip ==
  /\ call.fn \in {"written", "read", "writeJSONAgain"}
       => file = TextFile(stringify(call.args[1]))
  /\ call.fn \in {"read", "writeJSONAgain"}
       => call.ret[1] = [null |-> FALSE, data |-> call.args[1]]
  /\ call.fn = "writtenAgain"
       => /\ file = TextFile(stringify(call.args[1]))
          /\ call.args[2].draws = call.args[1].draws
          /\ call.args[2].tickets = call.args[1].tickets

\* a ledger with a pending and an assigned ticket was saved over the text
\* of another ledger, loaded and saved again
C26_Witness ==
  /\ call.fn = "writtenAgain"
  /\ call.args[1] = PlayedLedger
  /\ file0 = TextFile(stringify(TiedLedger))
  /\ file0.text # file.text

\* the ids of the tickets that were pending in the ledger a draw loaded
SnapshotPending(r) ==
  {t.id : t \in {u \in Range(reqs[r].loaded.tickets) : u.drawId = Null}}

\* the writes that a draw request enqueued
DrawJobs ==
  {i \in 1..Len(writes) :
     \E r \in Reqs : reqs[r].op = "draw" /\ reqs[r].job = i}

\* C27: the document a draw hands to the write chain holds the new draw and
\* no pending ticket, and no content that a reader can find in the file
\* holds the draw of a request while a ticket that was pending in the ledger
\* that request loaded is still pending.
C27_DrawAssignsInOneCommit ==
  /\ \A i \in DrawJobs :
       /\ Pending(writes[i].payload) = {}
       /\ \E r \in Reqs :
            /\ reqs[r].job = i
            /\ \E d \in Range(writes[i].payload.draws) : d.id = reqs[r].made
  /\ \A r \in Reqs : \A content \in Observable :
       ( /\ reqs[r].op = "draw"
         /\ content.kind = "doc"
         /\ \E d \in Range(content.doc.draws) : d.id = reqs[r].made )
       => \A t \in Range(content.doc.tickets) :
            t.id \in SnapshotPending(r) => t.drawId # Null

\* a draw that loaded two pending tickets is in the file, after a buy of
\* another request was written too
C27_Witness ==
  \E r \in Reqs :
    /\ reqs[r].op = "draw"
    /\ Cardinality(SnapshotPending(r)) = 2
    /\ file.kind = "doc"
    /\ \E d \in Range(file.doc.draws) : d.id = reqs[r].made
    /\ Len(commits) = 2
    /\ \E q \in Reqs : reqs[q].op = "buy" /\ reqs[q].job \in Range(commits)

\* C28: from every ledger the file holds, some sequence of buyTicket and
\* draw calls leads to a draw of an admin that succeeds.
C28_DrawNeverDeadlocks ==
  DrawCanSucceed(loadDB(file, FALSE), LongestSequence)

\* the request whose write was committed last
Committer(cs) == CHOOSE r \in Reqs : reqs[r].job = cs[Len(cs)]

\* a ticket of the ledger is in the next ledger with the same id, userId,
\* numbers and purchasedAt, a draw with the same id, numbers and date
FieldsKept(before, after) ==
  /\ \A t \in Range(before.tickets) : \A u \in Range(after.tickets) :
       u.id = t.id => /\ u.userId = t.userId
                      /\ u.numbers = t.numbers
                      /\ u.purchasedAt = t.purchasedAt
  /\ \A d \in Range(before.draws) : \A e \in Range(after.draws) :
       e.id = d.id => e.numbers = d.numbers /\ e.date = d.date

\* the next ledger is the ledger and one more ticket, which is pending
AppendsOneTicket(before, after) ==
  /\ after.draws = before.draws
  /\ Len(after.tickets) = Len(before.tickets) + 1
  /\ SubSeq(after.tickets, 1, Len(before.tickets)) = before.tickets
  /\ after.tickets[Len(after.tickets)].drawId = Null

\* the next ledger is the ledger and one more draw, whose id the tickets
\* that were pending carry; the other tickets are as they were
AppendsOneDraw(before, after) ==
  /\ Len(after.draws) = Len(before.draws) + 1
  /\ SubSeq(after.draws, 1, Len(before.draws)) = before.draws
  /\ after.tickets =
       assignPending(before.tickets, after.draws[Len(after.draws)].id)

\* C30: in every write to the file while no file operation has failed, the
\* tickets and draws that stay keep their fields, a buyTicket adds one
\* pending ticket to the stored ledger and changes nothing else, and a draw
\* adds one draw and gives its id to the pending tickets of the stored
\* ledger and changes nothing else.
C30_StoredRecordsOnlyGrow ==
  [][ (commits' # commits /\ faults' = 0)
      => LET before == loadDB(file, FALSE)
             after  == loadDB(file', FALSE)
             op     == reqs[Committer(commits')].op
         IN /\ FieldsKept(before, after)
            /\ op = "buy" => AppendsOneTicket(before, after)
            /\ op = "draw" => AppendsOneDraw(before, after) ]_vars

\* the fields alone
C30_FieldsKept ==
  [][ (commits' # commits /\ faults' = 0)
      => FieldsKept(loadDB(file, FALSE), loadDB(file', FALSE)) ]_vars

\* C31: the route guard adminOnly lets an identity pass exactly when the
\* controller's isAdmin accepts it, and isAdmin accepts an identity exactly
\* when the guard lets it pass.
C31_GuardAndControllerAgree ==
  /\ (call.fn = "adminOnly" /\ call.done) => call.ret = isAdmin(call.args[1])
  /\ (call.fn = "isAdmin" /\ call.done) => call.ret = adminOnly(call.args[1])

\* the ids of the draws of a document
DrawIdsOf(doc) == {d.id : d \in Range(doc.draws)}

\* C32: in every ledger a reader can find in the file, a ticket's drawId
\* that is not null is the id of a draw of the same document.
C32_NoDanglingDrawReference ==
  \A content \in Observable :
    content.kind = "doc"
    => \A t \in Range(content.doc.tickets) :
         t.drawId # Null => t.drawId \in DrawIdsOf(content.doc)

\* a draw and a buy were both written, and the file holds a ticket that
\* carries the id of the draw a request made
C32_Witness ==
  /\ file.kind = "doc"
  /\ Len(commits) = 2
  /\ \E r, q \in Reqs :
       /\ reqs[r].op = "draw" /\ reqs[r].made # 0
       /\ reqs[q].op = "buy" /\ reqs[q].job \in Range(commits)
       /\ reqs[r].job \in Range(commits)
       /\ \E t \in Range(file.doc.tickets) : t.drawId = reqs[r].made

\* C33: while no file operation has failed, the draw of every draw request
\* that was answered 201 is in the ledger the file holds.
C33_DrawsNeverRemoved ==
  \A r \in Reqs :
    (faults = 0 /\ reqs[r].op = "draw" /\ reqs[r].status = 201)
    => reqs[r].made \in DrawIdsOf(loadDB(file, FALSE))

\* C34: a buyTicket or draw request that was answered 201 enqueued a write
\* of its own, and that write has stored its payload in the file (it is
\* fulfilled and among the commits); the completion of an earlier write of
\* the chain does not answer it.
C34_SuccessAfterOwnWrite ==
  \A r \in Reqs :
    (reqs[r].op \in {"buy", "draw"} /\ reqs[r].status = 201)
    => /\ reqs[r].job \in 1..Len(writes)
       /\ writes[reqs[r].job].owner = r
       /\ writes[reqs[r].job].st = "done"
       /\ reqs[r].job \in Range(commits)

\* the first write of the chain is complete and its request is answered,
\* the second one is still running and its request is still suspended
C34_Witness ==
  \E r, q \in Reqs :
    /\ reqs[r].job = 1 /\ reqs[r].status = 201
    /\ reqs[q].job = 2 /\ writes[2].st \in Executing
    /\ reqs[q].pc = "awaiting"

\* the complete documents around the writes in flight: what the file holds,
\* and what each running writeFile is storing
CompleteDocuments ==
  {loadDB(file, FALSE)} \cup
  {writes[i].payload : i \in {j \in 1..Len(writes) : writes[j].st = "writing"}}

\* C35: while no file operation has failed, the ledger that the loadDB of a
\* buyTicket or draw returns is the complete document before or the complete
\* document after the write it overlaps, never the empty ledger of a file
\* found empty or truncated.
C35_LoadSeesACompleteDocument ==
  [][ \A r \in Reqs :
        ( /\ faults' = 0
          /\ reqs[r].pc = "idle"
          /\ reqs'[r].pc = "loaded"
          /\ reqs'[r].op \in {"buy", "draw"} )
        => reqs'[r].loaded \in CompleteDocuments ]_vars

\* C36: for a stored user, isAdmin of the identity that the session of a
\* login gives and isAdmin of the identity that the token of that login
\* gives are the same.
C36_AdminSameOnBothPaths ==
  /\ (call.fn = "bySession" /\ call.done)
       => call.ret = isAdmin(tokenIdentity(call.args[1]))
  /\ (call.fn = "byToken" /\ call.done)
       => call.ret = isAdmin(sessionIdentity(call.args[1]))

\* the role users.json held for a user when the server started
SeedRole(id) ==
  IF findIndex(SeedUsers, id) = 0 THEN ""
  ELSE SeedUsers[findIndex(SeedUsers, id)].role

\* C37: a stored user has another role than at the start only if an admin
\* has sent an update of that user with that role.
C37_RoleChangedByAdminOnly ==
  userStore.file.kind = "doc"
  => \A u \in Range(userStore.file.users) :
       u.role # SeedRole(u.id)
       => \E r \in Reqs :
            /\ reqs[r].op \in {"putUser", "updateUser"}
            /\ reqs[r].target = u.id
            /\ reqs[r].role = u.role
            /\ isAdmin(reqs[r].user)

\* the writes to users.json that are between the call of writeJSON or
\* writeUsers and its completion
UserWritesInFlight ==
  Cardinality({i \in 1..Len(userStore.writes) :
                 userStore.writes[i].st \in Executing})
  + Cardinality({r \in Reqs : reqs[r].pc \in Direct})

\* C38: at most one write to users.json is in flight at a time, and while no
\* file operation has failed the user of a register that was answered 201
\* is in the file once every request is answered.
C38_UserWritesSerialized ==
  /\ UserWritesInFlight <= 1
  /\ (faults = 0 /\ \A r \in Reqs : reqs[r].pc \in {"idle", "done"})
       => \A r \in Reqs :
            (reqs[r].op = "register" /\ reqs[r].status = 201)
            => findIndex(loadUsers(userStore.file, FALSE), NewUserId) # 0

\* C39: every buyTicket and draw request that has arrived is answered in
\* the end, with a response or with the 500 of the central handler, and a
\* request that is answered keeps that one answer.
C39_EveryRequestIsAnswered ==
  /\ \A r \in Reqs : (reqs[r].pc # "idle") ~> (reqs[r].pc = "done")
  /\ [][ \A r \in Reqs :
           reqs[r].pc = "done"
           => reqs'[r].pc = "done" /\ reqs'[r].status = reqs[r].status ]_vars

\* a request whose write was queued behind a write that failed has been
\* answered 500, and the request of the failed write too
C39_Witness ==
  \E r, q \in Reqs :
    /\ reqs[r].job = 1 /\ writes[1].st = "failed" /\ reqs[r].status = 500
    /\ reqs[q].job = 2 /\ writes[2].st = "rejected" /\ reqs[q].status = 500

====
